---------------------------- MODULE Spec2Model ----------------------------
(***************************************************************************)
(* The interactive multi-day calendar scheduler of travelio                *)
(* (frontend/src/App.tsx, ItineraryDetailView): the column layout engine,  *)
(* the calendar day builder, selection normalisation and the pointer       *)
(* driven selection / event-drag controller.                               *)
(*                                                                         *)
(* Strings of the program are modelled by their fields: a date             *)
(* "YYYY-MM-DD" is the triple <<y, m, d>>, a time "HH:MM" the pair         *)
(* <<h, m>>, a date-time "YYYY-MM-DDTHH:MM" the record [date, time].  The  *)
(* fixed-width, zero-padded strings order lexicographically as these       *)
(* tuples do.                                                              *)
(***************************************************************************)
EXTENDS Integers, Sequences, FiniteSets, TLC

VARIABLES
    segments,           \* layoutSegmentsWithColumns: the day's segments passed in
    laidOut,            \* layoutSegmentsWithColumns: the value returned for them
    draftStartDate,     \* draft.startDate, the trip's first day ("" when not set)
    draftEndDate,       \* draft.endDate, the trip's last day ("" when not set)
    calendarDays,       \* const calendarDays = buildCalendarDays(...) of the last render
    lenientDateParser,  \* the engine's Date parser rolls "02-30" over (V8) or rejects it
    skippedMidnight,    \* the local day whose 00:00 does not exist (a DST start), or null
    events,             \* events: the event list of the last store snapshot
    selectionRange,     \* selectionRange: the committed selection the composer is for
    dragSelection,      \* dragSelection: the live selection of a selection drag
    isDraggingSelection,
    dragSelectionRef,   \* dragSelectionRef.current: anchor and cursor of the gesture
    showEventForm,
    eventDraft,         \* eventDraft: the composer's fields
    eventFormError,
    eventSaving,
    eventStatusMessage,
    eventDragState,     \* eventDragState: the event drag in progress, or null
    selectionListeners, \* the window listeners of the selection-drag effect are attached
    eventDragListeners, \* the eventDragState the attached event-drag listeners closed over
    store,              \* the events collection of the document store
    pending,            \* create and update requests sent and not yet settled
    eventFormPosition,  \* eventFormPosition: {top, left} of the composer, or null
    eventFormPlacement, \* eventFormPlacement: "left" or "right"
    gridMetrics         \* what updateEventFormPosition last read from the DOM

layoutVars == <<segments, laidOut>>
tripVars == <<draftStartDate, draftEndDate, calendarDays>>
envVars == <<lenientDateParser, skippedMidnight>>
selectionVars == <<selectionRange, dragSelection, isDraggingSelection,
                   dragSelectionRef, selectionListeners>>
composerVars == <<showEventForm, eventDraft, eventFormError, eventSaving>>
dragVars == <<eventDragState, eventDragListeners>>
storeVars == <<events, store, pending>>
formVars == <<eventFormPosition, eventFormPlacement, gridMetrics>>
ctlVars == <<selectionVars, composerVars, dragVars, storeVars, eventStatusMessage,
             formVars>>
vars == <<layoutVars, tripVars, envVars, ctlVars>>

\* null and undefined.
Null == [kind |-> "null"]

\* The null of toAbsoluteMinutes, whose other results are never negative.
NullMinutes == -1

(***************************************************************************)
(* Program constants                                                       *)
(***************************************************************************)
TOTAL_DAY_MINUTES == 1440
MIN_EVENT_DURATION == 30
SELECTION_STEP_MINUTES == 30
CALENDAR_SLOT_HEIGHT_PX == 48

Min(a, b) == IF a <= b THEN a ELSE b
Max(a, b) == IF a >= b THEN a ELSE b

clampMinutes(value) == Max(0, Min(TOTAL_DAY_MINUTES, value))

\* The initial state of ItineraryDetailView's calendar state (the useState and
\* useRef initial values), with no event loaded.
EmptyDraft ==
    [title |-> "", description |-> "", startDate |-> [kind |-> "text", text |-> ""],
     endDate |-> [kind |-> "text", text |-> ""],
     startTime |-> [kind |-> "text", text |-> ""],
     endTime |-> [kind |-> "text", text |-> ""]]

\* No composer position has been computed.
FormIdle ==
    /\ eventFormPosition = Null
    /\ eventFormPlacement = "right"
    /\ gridMetrics = Null

\* setEventFormPosition(null); setEventFormPlacement("right"): called by
\* openEventComposer and cancelEventCreation, and by the effect on showEventForm
\* when the composer is hidden.
ResetFormPosition ==
    /\ eventFormPosition' = Null
    /\ eventFormPlacement' = "right"
    /\ UNCHANGED gridMetrics

ControllerIdle ==
    /\ FormIdle
    /\ events = <<>>
    /\ selectionRange = Null
    /\ dragSelection = Null
    /\ isDraggingSelection = FALSE
    /\ dragSelectionRef = Null
    /\ showEventForm = FALSE
    /\ eventDraft = EmptyDraft
    /\ eventFormError = Null
    /\ eventSaving = FALSE
    /\ eventStatusMessage = Null
    /\ eventDragState = Null
    /\ selectionListeners = FALSE
    /\ eventDragListeners = Null
    /\ store = {}
    /\ pending = <<>>

(***************************************************************************)
(* Column layout engine: layoutSegmentsWithColumns                         *)
(***************************************************************************)
RemoveAt(seq, index) ==
    SubSeq(seq, 1, index - 1) \o SubSeq(seq, index + 1, Len(seq))

\* A release test that looks at the start of the active segment, not its end.
isFinishedByStart(activeSegment, startMinutes) ==
    activeSegment.segmentStartMinutes <= startMinutes

\* A release test that keeps a segment ending exactly at startMinutes active.
isFinishedStrict(activeSegment, startMinutes) ==
    activeSegment.segmentEndMinutes < startMinutes

\* The test of releaseFinished: the active segment ended at or before startMinutes.
isFinished(activeSegment, startMinutes) ==
    activeSegment.segmentEndMinutes <= startMinutes

\* releaseFinished: walks `active` from its last index down to 0, pushing the
\* column of every finished segment onto freeColumns and splicing it out.
RECURSIVE releaseFrom(_, _, _, _)
releaseFrom(active, freeColumns, index, startMinutes) ==
    IF index = 0
    THEN [active |-> active, freeColumns |-> freeColumns]
    ELSE IF isFinished(active[index], startMinutes)
         THEN releaseFrom(RemoveAt(active, index),
                          Append(freeColumns, active[index].columnIndex),
                          index - 1, startMinutes)
         ELSE releaseFrom(active, freeColumns, index - 1, startMinutes)

releaseFinished(active, freeColumns, startMinutes) ==
    releaseFrom(active, freeColumns, Len(active), startMinutes)

\* A column choice that never takes a freed column.
pickColumnNoReuse(freeColumns, nextColumnIndex) ==
    [columnIndex |-> nextColumnIndex,
     freeColumns |-> freeColumns,
     nextColumnIndex |-> nextColumnIndex + 1]

\* freeColumns.length ? freeColumns.pop()! : nextColumnIndex++
pickColumn(freeColumns, nextColumnIndex) ==
    IF Len(freeColumns) > 0
    THEN [columnIndex |-> freeColumns[Len(freeColumns)],
          freeColumns |-> SubSeq(freeColumns, 1, Len(freeColumns) - 1),
          nextColumnIndex |-> nextColumnIndex]
    ELSE [columnIndex |-> nextColumnIndex,
          freeColumns |-> freeColumns,
          nextColumnIndex |-> nextColumnIndex + 1]

\* The locals of layoutSegmentsWithColumns before the forEach.  groupMeta is the
\* sequence of maxColumns, indexed by group id (ids are 1, 2, ...).
layoutStart ==
    [laidOut |-> <<>>, active |-> <<>>, freeColumns |-> <<>>,
     nextColumnIndex |-> 0, currentGroupId |-> 0, groupMeta |-> <<>>]

\* One pass of the forEach body for `segment`.
placeSegment(st, segment) ==
    LET released == releaseFinished(st.active, st.freeColumns,
                                    segment.segmentStartMinutes)
        fresh == Len(released.active) = 0
        freeColumns == IF fresh THEN <<>> ELSE released.freeColumns
        nextColumnIndex == IF fresh THEN 0 ELSE st.nextColumnIndex
        currentGroupId == IF fresh THEN st.currentGroupId + 1
                          ELSE st.currentGroupId
        picked == pickColumn(freeColumns, nextColumnIndex)
        workingSegment ==
            [columnIndex |-> picked.columnIndex, columnCount |-> 1,
             groupId |-> currentGroupId] @@ segment
        meta == IF currentGroupId > Len(st.groupMeta)
                THEN Append(st.groupMeta, 0) ELSE st.groupMeta
    IN  [laidOut |-> Append(st.laidOut, workingSegment),
         active |-> Append(released.active, workingSegment),
         freeColumns |-> picked.freeColumns,
         nextColumnIndex |-> picked.nextColumnIndex,
         currentGroupId |-> currentGroupId,
         groupMeta |-> [meta EXCEPT ![currentGroupId] =
                            Max(@, picked.columnIndex + 1)]]

RECURSIVE layoutLoop(_, _, _)
layoutLoop(st, segs, index) ==
    IF index > Len(segs) THEN st
    ELSE layoutLoop(placeSegment(st, segs[index]), segs, index + 1)

\* const { groupId: _ignored, ...rest }
dropGroupId(workingSegment) ==
    [f \in DOMAIN workingSegment \ {"groupId"} |-> workingSegment[f]]

layoutSegmentsWithColumns(segs) ==
    IF Len(segs) = 0 THEN <<>>
    ELSE LET st == layoutLoop(layoutStart, segs, 1)
         IN  [i \in 1..Len(st.laidOut) |->
                 dropGroupId([st.laidOut[i] EXCEPT
                     !.columnCount = st.groupMeta[st.laidOut[i].groupId]])]

(***************************************************************************)
(* Bounds of the layout check                                              *)
(***************************************************************************)
MaxSegments == 4
MaxLayoutMinute == 4

LayoutIntervals ==
    {[segmentStartMinutes |-> a, segmentEndMinutes |-> b] :
        a \in 0..MaxLayoutMinute, b \in 0..MaxLayoutMinute}

LayoutInput ==
    {s \in LayoutIntervals : s.segmentStartMinutes < s.segmentEndMinutes}

InitLayout ==
    /\ segments = <<>>
    /\ laidOut = <<>>
    /\ draftStartDate = ""
    /\ draftEndDate = ""
    /\ calendarDays = <<>>
    /\ lenientDateParser = FALSE
    /\ skippedMidnight = [kind |-> "null"]
    /\ ControllerIdle

\* The caller hands over one more segment of the day, the list staying sorted by
\* segmentStartMinutes (daySegments is sorted before the call), and lays it out.
LayoutDay ==
    /\ Len(segments) < MaxSegments
    /\ \E s \in LayoutInput :
        /\ Len(segments) > 0 =>
              segments[Len(segments)].segmentStartMinutes <= s.segmentStartMinutes
        /\ segments' = Append(segments, s)
        /\ laidOut' = layoutSegmentsWithColumns(segments')
    /\ UNCHANGED <<tripVars, envVars, ctlVars>>

NextLayout == LayoutDay

SpecLayout == InitLayout /\ [][NextLayout]_vars

overlaps(a, b) ==
    /\ a.segmentStartMinutes < b.segmentEndMinutes
    /\ b.segmentStartMinutes < a.segmentEndMinutes

\* C1: two segments of one day whose half-open intervals overlap never get the
\* same columnIndex.
C1_NoSharedColumn ==
    /\ Len(laidOut) = Len(segments)
    /\ \A i, j \in 1..Len(laidOut) :
          (i # j /\ overlaps(laidOut[i], laidOut[j]))
              => laidOut[i].columnIndex # laidOut[j].columnIndex

\* Three segments are laid out, two of them overlapping and one reusing a column.
C1_Witness ==
    /\ Len(laidOut) = 3
    /\ overlaps(laidOut[1], laidOut[2])
    /\ overlaps(laidOut[2], laidOut[3])
    /\ ~overlaps(laidOut[1], laidOut[3])
    /\ laidOut[3].columnIndex = laidOut[1].columnIndex

\* The connected overlap group of segment i: every segment linked to it by a
\* chain of pairwise overlaps.
RECURSIVE overlapClosure(_, _)
overlapClosure(segs, group) ==
    LET grown == group \cup {j \in 1..Len(segs) :
                                \E i \in group : overlaps(segs[i], segs[j])}
    IN  IF grown = group THEN group ELSE overlapClosure(segs, grown)

overlapGroup(segs, i) == overlapClosure(segs, {i})

\* The number of segments of `group` active at minute t.
activeAt(segs, group, t) ==
    Cardinality({j \in group : /\ segs[j].segmentStartMinutes <= t
                                /\ t < segs[j].segmentEndMinutes})

\* The largest number of segments of `group` active at one instant (it is reached
\* at the start of one of them).
maxSimultaneous(segs, group) ==
    CHOOSE n \in 1..Len(segs) :
        /\ \E j \in group : activeAt(segs, group, segs[j].segmentStartMinutes) = n
        /\ \A j \in group : activeAt(segs, group, segs[j].segmentStartMinutes) <= n

\* C2: every segment's columnCount is the largest number of simultaneously
\* active segments of its connected overlap group; a segment overlapping no
\* other has columnCount 1 and the members of one group share their columnCount.
C2_ColumnCountIsGroupWidth ==
    /\ Len(laidOut) = Len(segments)
    /\ \A i \in 1..Len(laidOut) :
          /\ laidOut[i].columnCount =
                 maxSimultaneous(segments, overlapGroup(segments, i))
          /\ (overlapGroup(segments, i) = {i}) => laidOut[i].columnCount = 1
          /\ \A j \in overlapGroup(segments, i) :
                 laidOut[j].columnCount = laidOut[i].columnCount

\* A group of three in which a freed column is reused, so that the group is
\* wider in members than in columns, follows an isolated segment.
C2_Witness ==
    /\ Len(laidOut) = 4
    /\ overlapGroup(segments, 1) = {1}
    /\ overlapGroup(segments, 2) = {2, 3, 4}
    /\ laidOut[1].columnCount = 1
    /\ laidOut[2].columnCount = 2
    /\ laidOut[4].columnIndex = laidOut[2].columnIndex

(***************************************************************************)
(* Dates.  A string is a record: [kind |-> "ymd", y, m, d] for a string    *)
(* that matches \d{4}-\d{2}-\d{2}, [kind |-> "text", text] for any other   *)
(* string and [kind |-> "null"] for null.                                  *)
(***************************************************************************)
NoDate == Null
TextString(t) == [kind |-> "text", text |-> t]
DateString(y, m, d) == [kind |-> "ymd", y |-> y, m |-> m, d |-> d]

\* !value: null and the empty string are falsy.
isFalsy(value) ==
    value.kind = "null" \/ (value.kind = "text" /\ value.text = "")

\* value || null
orNull(value) == IF isFalsy(value) THEN NoDate ELSE value

\* normalizeDateInput: the trimmed value when it matches /^\d{4}-\d{2}-\d{2}$/.
normalizeDateInput(value) ==
    IF isFalsy(value) THEN NoDate
    ELSE IF value.kind = "ymd" THEN value ELSE NoDate

\* a < b and a <= b on two YYYY-MM-DD strings (JavaScript compares them by
\* code unit, that is field by field).
dateStringLess(a, b) ==
    \/ a.y < b.y
    \/ a.y = b.y /\ a.m < b.m
    \/ a.y = b.y /\ a.m = b.m /\ a.d < b.d

isLeapYear(y) == (y % 4 = 0 /\ y % 100 # 0) \/ y % 400 = 0

daysInMonth(y, m) ==
    IF m = 2 THEN (IF isLeapYear(y) THEN 29 ELSE 28)
    ELSE IF m \in {4, 6, 9, 11} THEN 30 ELSE 31

\* A string that names a day of the calendar.
isRealDate(value) ==
    /\ value.kind = "ymd"
    /\ value.m \in 1..12
    /\ value.d \in 1..daysInMonth(value.y, value.m)

\* The day after a real date.
nextDate(date) ==
    IF date.d < daysInMonth(date.y, date.m)
    THEN DateString(date.y, date.m, date.d + 1)
    ELSE IF date.m < 12 THEN DateString(date.y, date.m + 1, 1)
    ELSE DateString(date.y + 1, 1, 1)

\* A Date object: the local calendar day and the local hour it stands at, or
\* the invalid Date (getTime() is NaN).
InvalidDate == [kind |-> "NaN"]
LocalDate(date, hours) == [kind |-> "time", date |-> date, hours |-> hours]

\* A local time that falls into the hour skipped at a DST start is read with
\* the offset before the transition: 00:00 of that day becomes 01:00.
resolveLocal(date, hours) ==
    IF date = skippedMidnight /\ hours = 0
    THEN LocalDate(date, 1) ELSE LocalDate(date, hours)

\* A resolution that ignores the skipped hour.
resolveLocalNoGap(date, hours) == LocalDate(date, hours)

\* new Date(`${value}T00:00:00`) for a string that matches the date pattern.
\* Month 00 or above 12 and day 00 or above 31 are invalid everywhere; a day
\* past the end of its month is invalid in some engines and rolls over into
\* the next month in others.
parseLocalMidnight(value) ==
    IF value.m \notin 1..12 \/ value.d \notin 1..31 THEN InvalidDate
    ELSE IF value.d <= daysInMonth(value.y, value.m)
    THEN resolveLocal(value, 0)
    ELSE IF lenientDateParser
    THEN resolveLocal(
             IF value.m < 12
             THEN DateString(value.y, value.m + 1,
                             value.d - daysInMonth(value.y, value.m))
             ELSE DateString(value.y + 1, 1,
                             value.d - daysInMonth(value.y, value.m)), 0)
    ELSE InvalidDate

\* cursor.setDate(cursor.getDate() + 1): the next local day, same local hour.
setDatePlusOne(cursor) == resolveLocal(nextDate(cursor.date), cursor.hours)

\* a > b, a <= b on two valid Dates (by time value).
dateAfter(a, b) ==
    \/ dateStringLess(b.date, a.date)
    \/ a.date = b.date /\ a.hours > b.hours

\* formatDateToIsoLocal
formatDateToIsoLocal(date) == date.date

\* The for loop of buildCalendarDays.
RECURSIVE buildDaysFrom(_, _, _)
buildDaysFrom(cursor, endDate, days) ==
    IF dateAfter(cursor, endDate) THEN days
    ELSE buildDaysFrom(setDatePlusOne(cursor), endDate,
                       Append(days, [iso |-> formatDateToIsoLocal(cursor)]))

\* buildCalendarDays.  A CalendarDay is modelled by its iso field; the labels
\* and isToday are display values nothing reads back.
buildCalendarDays(start, end) ==
    IF isFalsy(start) \/ isFalsy(end) THEN <<>>
    ELSE LET normalizedStart == normalizeDateInput(start)
             normalizedEnd == normalizeDateInput(end)
         IN  IF isFalsy(normalizedStart) \/ isFalsy(normalizedEnd) THEN <<>>
             ELSE LET startDate == parseLocalMidnight(normalizedStart)
                      endDate == parseLocalMidnight(normalizedEnd)
                  IN  IF \/ startDate = InvalidDate
                         \/ endDate = InvalidDate
                         \/ dateAfter(startDate, endDate)
                      THEN <<>>
                      ELSE buildDaysFrom(startDate, endDate, <<>>)

(***************************************************************************)
(* Bounds of the calendar day builder check                                *)
(***************************************************************************)
MaxTripDays == 5

\* The real dates a trip may name: MaxTripDays consecutive days from
\* 2024-03-30 on, across a month's end.
RECURSIVE datesFrom(_, _)
datesFrom(date, n) ==
    IF n = 0 THEN {} ELSE {date} \cup datesFrom(nextDate(date), n - 1)

TripDates == datesFrom(DateString(2024, 3, 30), MaxTripDays)

\* Where the engine runs: a time zone without a skipped midnight, or one that
\* starts DST at 00:00 of 2024-03-31 (Asia/Beirut), within the trip dates.
SkippedMidnights == {NoDate, DateString(2024, 3, 31)}

\* Strings a stored itinerary or the form may also hold.
OddDates ==
    {NoDate, TextString(""), TextString("next week"),
     DateString(2024, 4, 31), DateString(2024, 13, 1), DateString(2024, 4, 0),
     DateString(2024, 4, 32)}

NotRendered == <<[iso |-> NoDate]>>

InitDays ==
    /\ draftStartDate \in (TripDates \cup OddDates) \ {NoDate}
    /\ draftEndDate \in (TripDates \cup OddDates) \ {NoDate}
    /\ calendarDays = NotRendered
    /\ lenientDateParser \in BOOLEAN
    /\ skippedMidnight \in SkippedMidnights
    /\ segments = <<>>
    /\ laidOut = <<>>
    /\ ControllerIdle

\* A render of ItineraryDetailView computes calendarDays from the draft.
RenderCalendarDays ==
    /\ calendarDays = NotRendered
    /\ calendarDays' = buildCalendarDays(orNull(draftStartDate),
                                         orNull(draftEndDate))
    /\ UNCHANGED <<draftStartDate, draftEndDate, envVars, layoutVars, ctlVars>>

NextDays == RenderCalendarDays

SpecDays == InitDays /\ [][NextDays]_vars

\* The number of days from real date a to real date b, a not after b.
RECURSIVE daysBetween(_, _)
daysBetween(a, b) == IF a = b THEN 0 ELSE 1 + daysBetween(nextDate(a), b)

\* C10: buildCalendarDays returns the empty sequence when a trip date is
\* missing, names no day of the calendar, or start is after end; otherwise it
\* returns (end - start in days) + 1 days, each one day after the one before,
\* the first equal to start and the last equal to end.
C10_DaysCoverTrip ==
    calendarDays # NotRendered =>
        IF \/ ~isRealDate(draftStartDate)
           \/ ~isRealDate(draftEndDate)
           \/ dateStringLess(draftEndDate, draftStartDate)
        THEN calendarDays = <<>>
        ELSE /\ Len(calendarDays) = daysBetween(draftStartDate, draftEndDate) + 1
             /\ calendarDays[1].iso = draftStartDate
             /\ calendarDays[Len(calendarDays)].iso = draftEndDate
             /\ \A i \in 1..(Len(calendarDays) - 1) :
                    calendarDays[i + 1].iso = nextDate(calendarDays[i].iso)


(***************************************************************************)
(* Selection normalisation: dayIndexMap, toAbsoluteMinutes,                *)
(* normalizeSelection                                                      *)
(***************************************************************************)
totalCalendarMinutes == Len(calendarDays) * TOTAL_DAY_MINUTES

\* dayIndexMap.has(date) and dayIndexMap.get(date): the zero-based index of the
\* calendar day with that iso string.
dayIndexMapHas(date) == \E i \in 1..Len(calendarDays) : calendarDays[i].iso = date

dayIndexMapGet(date) ==
    (CHOOSE i \in 1..Len(calendarDays) : calendarDays[i].iso = date) - 1

\* toAbsoluteMinutes: null for a day outside the day list.
toAbsoluteMinutes(date, minutes) ==
    IF ~dayIndexMapHas(date) THEN NullMinutes
    ELSE dayIndexMapGet(date) * TOTAL_DAY_MINUTES + clampMinutes(minutes)

\* A start bound that leaves no room for the minimum duration.
selectionMaxAbsNoRoom(total) == total

\* const maxAbs = Math.max(totalCalendarMinutes - MIN_EVENT_DURATION, MIN_EVENT_DURATION)
selectionMaxAbs(total) == Max(total - MIN_EVENT_DURATION, MIN_EVENT_DURATION)

\* The split back into per-day form without the day-boundary rule for the end.
splitEndNoBoundary(endAbs) ==
    LET endDayIndex == Min(endAbs \div TOTAL_DAY_MINUTES,
                           Max(Len(calendarDays) - 1, 0))
    IN  [endDayIndex |-> endDayIndex,
         endMinutes |-> clampMinutes(endAbs - endDayIndex * TOTAL_DAY_MINUTES)]

\* endDayIndex and the end minutes of normalizeSelection: an end on a day
\* boundary is minute 1440 of the day before.
splitEnd(endAbs) ==
    LET endDayIndex == Min((endAbs - 1) \div TOTAL_DAY_MINUTES,
                           Max(Len(calendarDays) - 1, 0))
        normalizedEndMinutes == endAbs - endDayIndex * TOTAL_DAY_MINUTES
    IN  [endDayIndex |-> endDayIndex,
         endMinutes |-> clampMinutes(IF normalizedEndMinutes = 0
                                     THEN TOTAL_DAY_MINUTES
                                     ELSE normalizedEndMinutes)]

normalizeSelection(anchorDate, anchorMinutes, targetDate, targetMinutes) ==
    IF Len(calendarDays) = 0
    THEN [startDate |-> anchorDate, startMinutes |-> clampMinutes(anchorMinutes),
          endDate |-> targetDate, endMinutes |-> clampMinutes(targetMinutes)]
    ELSE
    LET anchorIndex == IF dayIndexMapHas(anchorDate)
                       THEN dayIndexMapGet(anchorDate) ELSE 0
        targetIndex == IF dayIndexMapHas(targetDate)
                       THEN dayIndexMapGet(targetDate) ELSE anchorIndex
        anchorAbs == anchorIndex * TOTAL_DAY_MINUTES + clampMinutes(anchorMinutes)
        targetAbs == targetIndex * TOTAL_DAY_MINUTES + clampMinutes(targetMinutes)
        maxAbs == selectionMaxAbs(totalCalendarMinutes)
        startAbs == Max(0, Min(Min(anchorAbs, targetAbs), maxAbs))
        endAbs == Max(startAbs + MIN_EVENT_DURATION,
                      Min(Max(anchorAbs, targetAbs), totalCalendarMinutes))
        startDayIndex == Min(startAbs \div TOTAL_DAY_MINUTES,
                             Max(Len(calendarDays) - 1, 0))
        end == splitEnd(endAbs)
    IN  [startDate |-> calendarDays[startDayIndex + 1].iso,
         startMinutes |-> clampMinutes(startAbs - startDayIndex * TOTAL_DAY_MINUTES),
         endDate |-> calendarDays[end.endDayIndex + 1].iso,
         endMinutes |-> end.endMinutes]

(***************************************************************************)
(* Bounds of the normalisation check                                       *)
(***************************************************************************)
MaxCalendarDays == 3

\* Trips of the controller checks: 2024-06-01 to one of the next days.
TripStart == DateString(2024, 6, 1)
TripEnds == datesFrom(TripStart, MaxCalendarDays)

\* Minute arguments: in range, on and off the hour, and out of range.
NormalizeMinutes == {-60, 0, 20, 600, 1410, 1425, 1440, 1500}

\* Day arguments: the days of the longest trip and one day that is in no trip.
NormalizeDates == TripEnds \cup {DateString(2024, 7, 15)}

InitNormalize ==
    /\ segments = <<>>
    /\ laidOut = <<>>
    /\ lenientDateParser = FALSE
    /\ skippedMidnight = NoDate
    /\ draftStartDate = TripStart
    /\ draftEndDate \in TripEnds
    /\ calendarDays = buildCalendarDays(orNull(draftStartDate), orNull(draftEndDate))
    /\ ControllerIdle

\* normalizeSelection is applied to an anchor and a cursor, as beginSlotSelection
\* and extendSlotSelection apply it: the pair is kept in dragSelectionRef and the
\* result becomes dragSelection.
NormalizeAnchorCursor ==
    \E anchorDate \in NormalizeDates, targetDate \in NormalizeDates,
       anchorMinutes \in NormalizeMinutes, targetMinutes \in NormalizeMinutes :
        /\ dragSelectionRef = Null
        /\ dragSelectionRef' =
              [anchorDate |-> anchorDate, anchorMinutes |-> anchorMinutes,
               currentDate |-> targetDate, currentMinutes |-> targetMinutes]
        /\ dragSelection' =
              normalizeSelection(anchorDate, anchorMinutes, targetDate, targetMinutes)
        /\ UNCHANGED <<layoutVars, tripVars, envVars, formVars, selectionRange,
                       isDraggingSelection, selectionListeners, composerVars,
                       dragVars, storeVars, eventStatusMessage>>

NextNormalize == NormalizeAnchorCursor

SpecNormalize == InitNormalize /\ [][NextNormalize]_vars

\* dayIndex * 1440 + minute of a (day, minute) pair of the day list.
absoluteOf(date, minutes) == dayIndexMapGet(date) * TOTAL_DAY_MINUTES + minutes

\* C3: on a non-empty calendar the selection normalizeSelection returns for any
\* anchor and cursor has, in absolute minutes, end - start >= 30, 0 <= start
\* and end <= totalCalendarMinutes.
C3_NormalizedSelectionInBounds ==
    (dragSelection # Null /\ Len(calendarDays) > 0) =>
        /\ dayIndexMapHas(dragSelection.startDate)
        /\ dayIndexMapHas(dragSelection.endDate)
        /\ LET start == absoluteOf(dragSelection.startDate, dragSelection.startMinutes)
               end == absoluteOf(dragSelection.endDate, dragSelection.endMinutes)
           IN  /\ end - start >= MIN_EVENT_DURATION
               /\ 0 <= start
               /\ end <= totalCalendarMinutes

\* Anchor and cursor both sit at 24:00 of the last day: the start had to be
\* pushed down to make room for the minimum duration.
C3_Witness ==
    /\ dragSelection # Null
    /\ Len(calendarDays) = 2
    /\ dragSelectionRef.anchorDate = calendarDays[2].iso
    /\ dragSelectionRef.currentDate = calendarDays[2].iso
    /\ dragSelectionRef.anchorMinutes = 1440
    /\ dragSelectionRef.currentMinutes = 1500
    /\ dragSelection.startMinutes = 1410
    /\ dragSelection.endMinutes = 1440


\* The clamped absolute start and end normalizeSelection computes for the
\* anchor and cursor kept in dragSelectionRef.
C19_Clamped ==
    LET ref == dragSelectionRef
        anchorIndex == IF dayIndexMapHas(ref.anchorDate)
                       THEN dayIndexMapGet(ref.anchorDate) ELSE 0
        targetIndex == IF dayIndexMapHas(ref.currentDate)
                       THEN dayIndexMapGet(ref.currentDate) ELSE anchorIndex
        anchorAbs == anchorIndex * TOTAL_DAY_MINUTES + clampMinutes(ref.anchorMinutes)
        targetAbs == targetIndex * TOTAL_DAY_MINUTES + clampMinutes(ref.currentMinutes)
        startAbs == Max(0, Min(Min(anchorAbs, targetAbs),
                               Max(totalCalendarMinutes - MIN_EVENT_DURATION,
                                   MIN_EVENT_DURATION)))
    IN  [startAbs |-> startAbs,
         endAbs |-> Max(startAbs + MIN_EVENT_DURATION,
                        Min(Max(anchorAbs, targetAbs), totalCalendarMinutes))]

\* C19: normalizeSelection never returns endMinutes = 0: a clamped end that is
\* a multiple of 1440 comes back as minute 1440 of the day before; and
\* toAbsoluteMinutes of the returned start and end pairs gives back exactly the
\* clamped absolute start and end.
C19_SplitIsLossless ==
    dragSelection # Null =>
        /\ dragSelection.endMinutes # 0
        /\ (C19_Clamped.endAbs % TOTAL_DAY_MINUTES = 0) =>
              /\ dragSelection.endMinutes = TOTAL_DAY_MINUTES
              /\ dragSelection.endDate =
                     calendarDays[C19_Clamped.endAbs \div TOTAL_DAY_MINUTES].iso
        /\ toAbsoluteMinutes(dragSelection.startDate, dragSelection.startMinutes)
              = C19_Clamped.startAbs
        /\ toAbsoluteMinutes(dragSelection.endDate, dragSelection.endMinutes)
              = C19_Clamped.endAbs

\* The cursor sits on minute 0 of the second day of a longer trip: the end is
\* minute 1440 of the first day.
C19_Witness ==
    /\ dragSelection # Null
    /\ Len(calendarDays) >= 2
    /\ dragSelectionRef.currentDate = calendarDays[2].iso
    /\ dragSelectionRef.currentMinutes = 0
    /\ dragSelectionRef.anchorDate = calendarDays[1].iso
    /\ dragSelectionRef.anchorMinutes = 600
    /\ dragSelection.endDate = calendarDays[1].iso
    /\ dragSelection.endMinutes = 1440


(***************************************************************************)
(* Times and date-times.  "HH:MM" is [kind |-> "hm", h, m] and             *)
(* "YYYY-MM-DDTHH:MM" is [kind |-> "iso", date, h, m], h and m being the   *)
(* two-digit fields.                                                       *)
(***************************************************************************)
TimeString(h, m) == [kind |-> "hm", h |-> h, m |-> m]
DateTimeString(date, h, m) == [kind |-> "iso", date |-> date, h |-> h, m |-> m]

\* parseIsoLocalDateTime: null unless the string matches ISO_DATE_TIME_PATTERN
\* with hour 0..23 and minute 0..59.
parseIsoLocalDateTime(value) ==
    IF value.kind # "iso" THEN Null
    ELSE IF value.h < 0 \/ value.h > 23 \/ value.m < 0 \/ value.m > 59 THEN Null
    ELSE [date |-> value.date, hours |-> value.h, minutes |-> value.m]

\* formatMinutesToTime
formatMinutesToTime(minutes) ==
    LET safeMinutes == clampMinutes(minutes)
    IN  TimeString(safeMinutes \div 60, safeMinutes % 60)

\* formatMinutesToIsoLocal
formatMinutesToIsoLocal(date, minutes) ==
    LET time == formatMinutesToTime(minutes)
    IN  DateTimeString(date, time.h, time.m)

\* a < b on two date-time strings of the fixed pattern.
dateTimeLess(a, b) ==
    \/ dateStringLess(a.date, b.date)
    \/ a.date = b.date /\ a.h < b.h
    \/ a.date = b.date /\ a.h = b.h /\ a.m < b.m

(***************************************************************************)
(* Segment projector: daySegments of one calendar day                      *)
(***************************************************************************)
\* An end test that does not count an end on the day's last midnight.
endsBeforeDayEnd(eventEndAbs, dayEndAbs) == eventEndAbs < dayEndAbs

\* isEndSegment: eventEndAbs <= dayEndAbs
endsWithinDay(eventEndAbs, dayEndAbs) == eventEndAbs <= dayEndAbs

\* The callback of events.map: the segment of `entry` on `day`, or null.
projectSegment(entry, day) ==
    LET parsedStart == parseIsoLocalDateTime(entry.startDateTime)
        parsedEnd == parseIsoLocalDateTime(entry.endDateTime)
    IN  IF parsedStart = Null \/ parsedEnd = Null THEN Null
        ELSE
        LET eventStartAbs == toAbsoluteMinutes(parsedStart.date,
                                 parsedStart.hours * 60 + parsedStart.minutes)
            eventEndAbs == toAbsoluteMinutes(parsedEnd.date,
                               parsedEnd.hours * 60 + parsedEnd.minutes)
            dayStartAbs == toAbsoluteMinutes(day.iso, 0)
            dayEndAbs == toAbsoluteMinutes(day.iso, TOTAL_DAY_MINUTES)
        IN  IF \/ eventStartAbs = NullMinutes
               \/ eventEndAbs = NullMinutes
               \/ dayStartAbs = NullMinutes
               \/ dayEndAbs = NullMinutes
               \/ eventEndAbs <= dayStartAbs
               \/ eventStartAbs >= dayEndAbs
            THEN Null
            ELSE [event |-> entry,
                  segmentStartMinutes |->
                      clampMinutes(Max(eventStartAbs, dayStartAbs) - dayStartAbs),
                  segmentEndMinutes |->
                      clampMinutes(Min(eventEndAbs, dayEndAbs) - dayStartAbs),
                  isStartSegment |-> eventStartAbs >= dayStartAbs,
                  isEndSegment |-> endsWithinDay(eventEndAbs, dayEndAbs)]

\* .filter that lets every projected segment through, empty or inverted too.
RECURSIVE keepSegmentsAll(_, _, _)
keepSegmentsAll(list, day, index) ==
    IF index > Len(list) THEN <<>>
    ELSE LET segment == projectSegment(list[index], day)
             rest == keepSegmentsAll(list, day, index + 1)
         IN  IF segment = Null THEN rest ELSE <<segment>> \o rest

\* .filter(segment => Boolean(segment && segmentEndMinutes > segmentStartMinutes))
RECURSIVE keepSegments(_, _, _)
keepSegments(list, day, index) ==
    IF index > Len(list) THEN <<>>
    ELSE LET segment == projectSegment(list[index], day)
             rest == keepSegments(list, day, index + 1)
         IN  IF segment = Null THEN rest
             ELSE IF segment.segmentEndMinutes > segment.segmentStartMinutes
             THEN <<segment>> \o rest ELSE rest

\* .sort((a, b) => a.segmentStartMinutes - b.segmentStartMinutes): a stable
\* sort, here by insertion after the last segment that starts no later.
RECURSIVE insertByStart(_, _)
insertByStart(sorted, segment) ==
    IF Len(sorted) = 0 THEN <<segment>>
    ELSE IF sorted[Len(sorted)].segmentStartMinutes <= segment.segmentStartMinutes
    THEN Append(sorted, segment)
    ELSE Append(insertByStart(SubSeq(sorted, 1, Len(sorted) - 1), segment),
                sorted[Len(sorted)])

RECURSIVE sortByStart(_, _)
sortByStart(list, index) ==
    IF index = 0 THEN <<>>
    ELSE insertByStart(sortByStart(list, index - 1), list[index])

daySegments(day) ==
    LET kept == keepSegments(events, day, 1) IN sortByStart(kept, Len(kept))

layoutSegments(day) == layoutSegmentsWithColumns(daySegments(day))

\* dayBodyRefs.current: every rendered day column registers its body element.
dayBodyRefs == {calendarDays[i].iso : i \in 1..Len(calendarDays)}

(***************************************************************************)
(* Existing-event drag: startEventDrag, updateEventDragPreview             *)
(***************************************************************************)
\* The pointer's height in a day body, offsetY = clientY - rect.top in px, as
\* minutes times four: (offsetY / CALENDAR_SLOT_HEIGHT_PX) * 60 = offsetY * 5 / 4.
offsetQuarterMinutes(offsetY) == (offsetY * 60 * 4) \div CALENDAR_SLOT_HEIGHT_PX

\* roundToSelectionStep of a value given in quarter minutes:
\* Math.round(value / 30) * 30, Math.round rounding halves up.
roundToSelectionStep(quarters) ==
    ((quarters + 2 * SELECTION_STEP_MINUTES) \div (4 * SELECTION_STEP_MINUTES))
        * SELECTION_STEP_MINUTES

\* clampMinutes(roundToSelectionStep((offsetY / CALENDAR_SLOT_HEIGHT_PX) * 60))
pointerMinutesAt(offsetY) ==
    clampMinutes(roundToSelectionStep(offsetQuarterMinutes(offsetY)))

\* previous.anchorOffset ?? 0; an undefined anchorOffset is <<>>, a number <<n>>.
anchorOrZero(anchorOffset) == IF anchorOffset = <<>> THEN 0 ELSE anchorOffset[1]

\* The move branch of updateEventDragPreview: the new preview bounds.
movePreview(previous, pointerMinutes) ==
    LET duration == previous.originalEnd - previous.originalStart
        anchor == anchorOrZero(previous.anchorOffset)
        start0 == clampMinutes(pointerMinutes - anchor)
        end0 == clampMinutes(start0 + duration)
        over == end0 > TOTAL_DAY_MINUTES
        end1 == IF over THEN TOTAL_DAY_MINUTES ELSE end0
        start1 == IF over THEN clampMinutes(end1 - duration) ELSE start0
        under == start1 < 0
        start2 == IF under THEN 0 ELSE start1
        end2 == IF under THEN clampMinutes(start2 + duration) ELSE end1
        end3 == IF end2 - start2 < MIN_EVENT_DURATION
                THEN clampMinutes(start2 + MIN_EVENT_DURATION) ELSE end2
    IN  [previous EXCEPT !.previewStart = start2, !.previewEnd = end3]

\* A resize of the start that forgets the minimum duration.
resizeStartPreviewUncapped(previous, pointerMinutes) ==
    [previous EXCEPT !.previewStart = clampMinutes(pointerMinutes)]

\* The resize-start branch.
resizeStartPreview(previous, pointerMinutes) ==
    LET capped == Min(pointerMinutes, previous.previewEnd - MIN_EVENT_DURATION)
    IN  [previous EXCEPT !.previewStart =
            clampMinutes(Min(capped, previous.previewEnd - MIN_EVENT_DURATION))]

\* A resize of the end that forgets the minimum duration.
resizeEndPreviewUncapped(previous, pointerMinutes) ==
    [previous EXCEPT !.previewEnd = clampMinutes(pointerMinutes)]

\* The resize-end branch.
resizeEndPreview(previous, pointerMinutes) ==
    LET capped == Max(pointerMinutes, previous.previewStart + MIN_EVENT_DURATION)
    IN  [previous EXCEPT !.previewEnd =
            clampMinutes(Min(capped, TOTAL_DAY_MINUTES))]

\* The updater updateEventDragPreview hands to setEventDragState.
dragPreviewUpdater(previous, offsetY) ==
    IF previous = Null THEN previous
    ELSE IF previous.date \notin dayBodyRefs THEN previous
    ELSE LET pointerMinutes == pointerMinutesAt(offsetY)
         IN  IF previous.mode = "move"
             THEN movePreview(previous, pointerMinutes)
             ELSE IF previous.mode = "resize-start"
             THEN resizeStartPreview(previous, pointerMinutes)
             ELSE resizeEndPreview(previous, pointerMinutes)

DragModes == {"move", "resize-start", "resize-end"}

\* A drag permission that looks at the event's first segment only.
isFirstSegment(segment) == segment.isStartSegment

\* isSingleDaySegment, the value of canMoveEvent, canResizeStart and
\* canResizeEnd: without it the block has no pointerdown handler and no handles.
isSingleDaySegment(segment) == segment.isStartSegment /\ segment.isEndSegment

\* startEventDrag, for a primary-button pointerdown on a rendered event block
\* (move) or one of its handles.  The handlers exist only on a segment that is
\* both the first and the last of its event.  pointerdown is a discrete event:
\* React renders and runs the listener effects before the next event, so the
\* listeners are attached, closing over the new state, within this step.
StartEventDrag(segment, date, mode, offsetY) ==
    /\ date \in dayBodyRefs
    /\ isSingleDaySegment(segment)
    /\ LET previewStart == clampMinutes(segment.segmentStartMinutes)
           previewEnd == clampMinutes(Max(segment.segmentEndMinutes,
                                          previewStart + MIN_EVENT_DURATION))
           anchorOffset == IF mode = "move"
                           THEN <<pointerMinutesAt(offsetY) - previewStart>>
                           ELSE <<>>
       IN  eventDragState' =
              [eventId |-> segment.event.id, date |-> date, mode |-> mode,
               originalStart |-> previewStart, originalEnd |-> previewEnd,
               previewStart |-> previewStart, previewEnd |-> previewEnd,
               anchorOffset |-> anchorOffset]
    /\ dragSelectionRef' = Null
    /\ dragSelection' = Null
    /\ isDraggingSelection' = FALSE
    /\ selectionListeners' = FALSE
    /\ eventDragListeners' = eventDragState'
    /\ UNCHANGED <<layoutVars, tripVars, envVars, formVars, selectionRange,
                   composerVars,
                   storeVars, eventStatusMessage>>

\* updateEventDragPreview(clientY), called by the pointermove, mousemove and
\* touchmove listeners of the event-drag effect while they are attached.  A move
\* is a continuous event: the re-render and the effect that re-attaches the
\* listeners come later (RunListenerEffects), and until then the attached
\* listeners close over the state of the previous render.
UpdateEventDragPreview(offsetY) ==
    /\ eventDragListeners # Null
    /\ eventDragState' = dragPreviewUpdater(eventDragState, offsetY)
    /\ UNCHANGED <<layoutVars, tripVars, envVars, formVars, selectionVars,
                   composerVars,
                   eventDragListeners, storeVars, eventStatusMessage>>

\* React runs the two listener effects of the latest render: their cleanup
\* detaches the listeners of the previous render, and they attach listeners
\* closing over this render's state when isDraggingSelection / eventDragState
\* say so.  selectionListeners tells whether the selection listeners are
\* attached; eventDragListeners is the eventDragState the attached event-drag
\* listeners closed over, or null when none is attached.
RunListenerEffects ==
    /\ selectionListeners # isDraggingSelection \/ eventDragListeners # eventDragState
    /\ selectionListeners' = isDraggingSelection
    /\ eventDragListeners' = eventDragState
    /\ UNCHANGED <<layoutVars, tripVars, envVars, formVars, selectionRange,
                   dragSelection,
                   isDraggingSelection, dragSelectionRef, composerVars,
                   eventDragState, storeVars, eventStatusMessage>>

(***************************************************************************)
(* Bounds and inputs of the event-drag check                               *)
(***************************************************************************)
Day1 == DateString(2024, 6, 1)
Day2 == DateString(2024, 6, 2)
Day3 == DateString(2024, 6, 3)

StoredEvent(id, title, startDate, sh, sm, endDate, eh, em) ==
    [id |-> id, title |-> title,
     startDateTime |-> DateTimeString(startDate, sh, sm),
     endDateTime |-> DateTimeString(endDate, eh, em)]

\* Events a drag may start from: on the half-hour grid, ending at midnight,
\* shorter than the minimum duration, off the grid, and across midnight.
DragEvents ==
    {StoredEvent(1, "Breakfast", Day1, 9, 0, Day1, 10, 30),
     StoredEvent(2, "Call", Day1, 9, 0, Day1, 10, 0),
     StoredEvent(3, "Taxi", Day1, 23, 50, Day2, 0, 0),
     StoredEvent(4, "Sunrise", Day2, 0, 10, Day2, 0, 20),
     StoredEvent(5, "Night train", Day2, 22, 0, Day3, 2, 0)}

\* Pointer heights in px below the top of the day body: above it, its top,
\* 00:20, 09:00, 09:30, 09:45, 09:50, 10:30, 23:30, 24:00 and below it.
DragOffsets == {-40, 0, 16, 432, 456, 468, 472, 504, 1128, 1152, 1200}

\* The event list a snapshot of `docs` sets: the documents in document order,
\* sorted by startDateTime (next.sort with localeCompare, a stable sort).
RECURSIVE snapshotOf(_)
snapshotOf(docs) ==
    IF docs = {} THEN <<>>
    ELSE LET last == CHOOSE e \in docs : \A f \in docs :
                        \/ dateTimeLess(f.startDateTime, e.startDateTime)
                        \/ f.startDateTime = e.startDateTime /\ f.id <= e.id
         IN  Append(snapshotOf(docs \ {last}), last)

InitDrag ==
    /\ FormIdle
    /\ segments = <<>>
    /\ laidOut = <<>>
    /\ lenientDateParser = FALSE
    /\ skippedMidnight = NoDate
    /\ draftStartDate = TripStart
    /\ draftEndDate = Day3
    /\ calendarDays = buildCalendarDays(orNull(draftStartDate), orNull(draftEndDate))
    /\ \E e \in DragEvents :
          /\ store = {e}
          /\ events = snapshotOf({e})
    /\ selectionRange = Null
    /\ dragSelection = Null
    /\ isDraggingSelection = FALSE
    /\ dragSelectionRef = Null
    /\ showEventForm = FALSE
    /\ eventDraft = EmptyDraft
    /\ eventFormError = Null
    /\ eventSaving = FALSE
    /\ eventStatusMessage = Null
    /\ eventDragState = Null
    /\ selectionListeners = FALSE
    /\ eventDragListeners = Null
    /\ pending = <<>>

\* The rendered block of a segment covers topOffset .. topOffset + blockHeight
\* px of its day body (at the preview bounds while the segment is dragged), and
\* a pointerdown that reaches its handlers lies inside it.
insideBlock(segment, date, offsetY) ==
    LET isDraggedSegment == /\ eventDragState # Null
                            /\ eventDragState.eventId = segment.event.id
                            /\ eventDragState.date = date
        previewStart == IF isDraggedSegment THEN eventDragState.previewStart
                        ELSE segment.segmentStartMinutes
        previewEnd == IF isDraggedSegment THEN eventDragState.previewEnd
                      ELSE segment.segmentEndMinutes
        durationMinutes == Max(previewEnd - previewStart, MIN_EVENT_DURATION)
    IN  /\ offsetY * 60 >= previewStart * CALENDAR_SLOT_HEIGHT_PX
        /\ offsetY * 60 <= (previewStart + durationMinutes) * CALENDAR_SLOT_HEIGHT_PX

PointerDownOnEvent ==
    \E i \in 1..Len(calendarDays) :
        \E k \in 1..Len(layoutSegments(calendarDays[i])) :
            \E mode \in DragModes, offsetY \in DragOffsets :
                /\ insideBlock(layoutSegments(calendarDays[i])[k],
                               calendarDays[i].iso, offsetY)
                /\ StartEventDrag(layoutSegments(calendarDays[i])[k],
                                  calendarDays[i].iso, mode, offsetY)

PointerMoveInDrag == \E offsetY \in DragOffsets : UpdateEventDragPreview(offsetY)

NextDrag ==
    \/ PointerDownOnEvent
    \/ PointerMoveInDrag
    \/ RunListenerEffects

SpecDrag == InitDrag /\ [][NextDrag]_vars

\* C4: in a move drag every pointer update keeps the preview's length equal to
\* originalEnd - originalStart (both edges shift together, and the interval is
\* clamped as a whole at 0 and at 1440).
C4_MovePreservesDuration ==
    (eventDragState # Null /\ eventDragState.mode = "move") =>
        eventDragState.previewEnd - eventDragState.previewStart
            = eventDragState.originalEnd - eventDragState.originalStart

\* C18: in a resize-end drag every pointer update sets previewEnd to
\* min(1440, max(candidate, previewStart + 30)), candidate being the pointer
\* minute rounded to the step and clamped to [0, 1440]; previewStart stays.
C18_ResizeEndCapped ==
    [][(/\ eventDragState # Null
        /\ eventDragState.mode = "resize-end"
        /\ \E offsetY \in DragOffsets : UpdateEventDragPreview(offsetY))
       => /\ \E offsetY \in DragOffsets :
                /\ UpdateEventDragPreview(offsetY)
                /\ eventDragState'.previewEnd =
                      Min(TOTAL_DAY_MINUTES,
                          Max(pointerMinutesAt(offsetY),
                              eventDragState.previewStart + MIN_EVENT_DURATION))
          /\ eventDragState'.previewStart = eventDragState.previewStart]_vars

\* The end of [09:00, 10:00) was dragged up to 09:00 and stopped at 09:30.
C18_Witness ==
    /\ eventDragState # Null
    /\ eventDragState.mode = "resize-end"
    /\ eventDragState.originalStart = 540
    /\ eventDragState.originalEnd = 600
    /\ eventDragState.previewStart = 540
    /\ eventDragState.previewEnd = 570

\* C13: in every reachable event-drag state the preview is a valid interval:
\* 0 <= previewStart < previewEnd <= 1440 and previewEnd - previewStart >= 30.
C13_PreviewIsValidInterval ==
    eventDragState # Null =>
        /\ 0 <= eventDragState.previewStart
        /\ eventDragState.previewStart < eventDragState.previewEnd
        /\ eventDragState.previewEnd <= TOTAL_DAY_MINUTES
        /\ eventDragState.previewEnd - eventDragState.previewStart
              >= MIN_EVENT_DURATION

\* The days on which the event with this id has a segment.
daysWithSegmentOf(eventId) ==
    {i \in 1..Len(calendarDays) :
        \E k \in 1..Len(daySegments(calendarDays[i])) :
            daySegments(calendarDays[i])[k].event.id = eventId}

\* C20: a drag state, whatever its mode, belongs to an event whose only segment
\* is the one on the drag's day, that segment being both the first and the last
\* of the event; so no drag state ever carries the id of an event that has
\* segments on more than one day.
C20_OnlySingleSegmentEventsDrag ==
    eventDragState # Null =>
        /\ Cardinality(daysWithSegmentOf(eventDragState.eventId)) = 1
        /\ \A i \in daysWithSegmentOf(eventDragState.eventId) :
              /\ calendarDays[i].iso = eventDragState.date
              /\ \A k \in 1..Len(daySegments(calendarDays[i])) :
                    daySegments(calendarDays[i])[k].event.id = eventDragState.eventId
                        => /\ daySegments(calendarDays[i])[k].isStartSegment
                           /\ daySegments(calendarDays[i])[k].isEndSegment

\* The event that ends on the midnight after day 1 has its one segment on
\* day 1 and is being resized from its end.
C20_Witness ==
    /\ eventDragState # Null
    /\ eventDragState.eventId = 3
    /\ eventDragState.mode = "resize-end"
    /\ eventDragState.date = Day1

\* C5: in a resize-start drag every pointer update sets previewStart to
\* min(candidate, previewEnd - 30), candidate being the pointer minute rounded to
\* the step and clamped to [0, 1440]; previewEnd stays and previewStart never
\* passes previewEnd - 30.
C5_ResizeStartCapped ==
    [][(/\ eventDragState # Null
        /\ eventDragState.mode = "resize-start"
        /\ \E offsetY \in DragOffsets : UpdateEventDragPreview(offsetY))
       => /\ \E offsetY \in DragOffsets :
                /\ UpdateEventDragPreview(offsetY)
                /\ eventDragState'.previewStart =
                      Min(pointerMinutesAt(offsetY),
                          eventDragState.previewEnd - MIN_EVENT_DURATION)
          /\ eventDragState'.previewEnd = eventDragState.previewEnd
          /\ eventDragState'.previewStart
                <= eventDragState'.previewEnd - MIN_EVENT_DURATION]_vars

\* The start of [09:00, 10:00) was dragged toward 09:50 and stopped at 09:30.
C5_Witness ==
    /\ eventDragState # Null
    /\ eventDragState.mode = "resize-start"
    /\ eventDragState.originalStart = 540
    /\ eventDragState.originalEnd = 600
    /\ eventDragState.previewStart = 570
    /\ eventDragState.previewEnd = 600


(***************************************************************************)
(* Interaction controller: slot selection, composer, end signals, store    *)
(***************************************************************************)
\* A status or error text shown to the user.
Message(text) == [kind |-> "message", text |-> text]

\* combineDateWithTime
combineDateWithTime(date, time) ==
    LET normalizedDate == normalizeDateInput(date)
    IN  IF normalizedDate = NoDate THEN Null
        ELSE IF time.kind # "hm" THEN Null
        ELSE IF time.h < 0 \/ time.h > 23 \/ time.m < 0 \/ time.m > 59 THEN Null
        ELSE DateTimeString(normalizedDate, time.h, time.m)

\* getDefaultEventDate
getDefaultEventDate ==
    IF normalizeDateInput(draftStartDate) # NoDate THEN normalizeDateInput(draftStartDate)
    ELSE IF normalizeDateInput(draftEndDate) # NoDate THEN normalizeDateInput(draftEndDate)
    ELSE TextString("")

\* The draft resetEventDraft sets.
resetEventDraft ==
    [title |-> "", description |-> "",
     startDate |-> getDefaultEventDate, endDate |-> getDefaultEventDate,
     startTime |-> TextString(""), endTime |-> TextString("")]

\* An end minute written one short of the selection's end.
safeEndMinutesExclusive(endMinutes) == endMinutes - 1

\* openEventComposer: safeEndMinutes
safeEndMinutes(endMinutes) ==
    IF endMinutes >= TOTAL_DAY_MINUTES THEN TOTAL_DAY_MINUTES - 1 ELSE endMinutes

\* openEventComposer(range), as the assignments it makes.
OpenEventComposer(range) ==
    /\ selectionRange' = range
    /\ dragSelection' = Null
    /\ dragSelectionRef' = Null
    /\ isDraggingSelection' = FALSE
    /\ eventFormError' = Null
    /\ eventStatusMessage' = Null
    /\ showEventForm' = TRUE
    /\ ResetFormPosition
    /\ eventDraft' = [title |-> eventDraft.title,
                      description |-> eventDraft.description,
                      startDate |-> range.startDate,
                      endDate |-> range.endDate,
                      startTime |-> formatMinutesToTime(range.startMinutes),
                      endTime |-> formatMinutesToTime(safeEndMinutes(range.endMinutes))]

\* cancelEventCreation past its eventSaving guard, as the assignments it makes.
CancelEventCreation ==
    /\ selectionRange' = Null
    /\ dragSelection' = Null
    /\ dragSelectionRef' = Null
    /\ isDraggingSelection' = FALSE
    /\ showEventForm' = FALSE
    /\ eventFormError' = Null
    /\ ResetFormPosition
    /\ eventDraft' = resetEventDraft

\* beginSlotSelection, from the pointerdown handler of the slot (date, hour).
\* pointerdown is a discrete event, so the listener effects run in this step,
\* and so does the effect that clears the position of a hidden composer.
BeginSlotSelection(date, hour) ==
    LET startMinutes == clampMinutes(hour * 60)
        initialEndMinutes == clampMinutes(startMinutes + 60)
    IN  /\ dragSelectionRef' = [anchorDate |-> date, anchorMinutes |-> startMinutes,
                                currentDate |-> date,
                                currentMinutes |-> initialEndMinutes]
        /\ dragSelection' = normalizeSelection(date, startMinutes, date, initialEndMinutes)
        /\ isDraggingSelection' = TRUE
        /\ selectionRange' = Null
        /\ showEventForm' = FALSE
        /\ eventFormError' = Null
        /\ eventStatusMessage' = Null
        /\ selectionListeners' = TRUE
        /\ eventDragListeners' = eventDragState
        /\ ResetFormPosition
        /\ UNCHANGED <<layoutVars, tripVars, envVars, eventDraft, eventSaving,
                       eventDragState, storeVars>>

\* A cursor that is the start of the entered slot in both directions.
slotCursorAtSlotStart(hour, movingForward) == clampMinutes(hour * 60)

\* extendSlotSelection: the cursor of a gesture entering the slot of `hour`.
slotCursorMinutes(hour, movingForward) ==
    IF movingForward THEN clampMinutes((hour + 1) * 60) ELSE clampMinutes(hour * 60)

\* extendSlotSelection, from the pointerenter handler of the slot (date, hour).
ExtendSlotSelection(date, hour) ==
    /\ isDraggingSelection
    /\ dragSelectionRef # Null
    /\ LET anchorDate == dragSelectionRef.anchorDate
           anchorMinutes == dragSelectionRef.anchorMinutes
           anchorAbs == toAbsoluteMinutes(anchorDate, anchorMinutes)
           targetStart == clampMinutes(hour * 60)
           targetStartAbs == toAbsoluteMinutes(date, targetStart)
           currentMinutes == slotCursorMinutes(hour, targetStartAbs >= anchorAbs)
       IN  /\ anchorAbs # NullMinutes
           /\ targetStartAbs # NullMinutes
           /\ dragSelectionRef' = [anchorDate |-> anchorDate,
                                   anchorMinutes |-> anchorMinutes,
                                   currentDate |-> date,
                                   currentMinutes |-> currentMinutes]
           /\ dragSelection' = normalizeSelection(anchorDate, anchorMinutes,
                                                  date, currentMinutes)
    /\ UNCHANGED <<layoutVars, tripVars, envVars, formVars, selectionRange,
                   isDraggingSelection, selectionListeners, composerVars,
                   dragVars, storeVars, eventStatusMessage>>

\* finalizeSlotSelection(commit), as the assignments it makes.
FinalizeSlotSelection(commit) ==
    LET anchor == dragSelectionRef
    IN  IF commit /\ anchor # Null
        THEN OpenEventComposer(normalizeSelection(anchor.anchorDate,
                                                  anchor.anchorMinutes,
                                                  anchor.currentDate,
                                                  anchor.currentMinutes))
        ELSE /\ dragSelectionRef' = Null
             /\ isDraggingSelection' = FALSE
             /\ dragSelection' = Null
             /\ UNCHANGED <<selectionRange, showEventForm, eventDraft,
                            eventFormError, eventStatusMessage, formVars>>

\* The updateDoc call of finalizeEventDrag.
UpdateRequest(current) ==
    [kind |-> "updateDoc", eventId |-> current.eventId,
     startDateTime |-> formatMinutesToIsoLocal(current.date, current.previewStart),
     endDateTime |-> formatMinutesToIsoLocal(current.date,
                        Min(current.previewEnd, TOTAL_DAY_MINUTES - 1))]

\* Whether finalizeEventDrag(commit) goes on to call updateDoc, `current` being
\* the eventDragState its closure holds.
issuesUpdate(commit, current) ==
    /\ commit
    /\ current # Null
    /\ ~ (/\ current.previewStart = current.originalStart
          /\ current.previewEnd = current.originalEnd)

\* The signals that end a gesture, and those among them the listener effects
\* register as commit.
EndSignals == {"pointerup", "mouseup", "touchend", "pointercancel", "touchcancel"}
commitSignalsWithCancel == EndSignals
commitSignals == {"pointerup", "mouseup", "touchend"}
eventDragSignalsNoCancel == commitSignals
eventDragSignals == EndSignals
selectionSignals == EndSignals

MaxPending == 1
MaxStored == 2

\* finalizeEventDrag(commit) as run by a listener that closed over `current`.
FinalizeEventDrag(commit, current) ==
    /\ eventDragState' = Null
    /\ IF issuesUpdate(commit, current)
       THEN /\ Len(pending) < MaxPending
            /\ pending' = Append(pending, UpdateRequest(current))
       ELSE UNCHANGED pending

\* One end signal reaches the page.  A pointerup over a calendar slot first runs
\* the slot's own handler, finalizeSlotSelection(true); then the window
\* listeners attached by the two effects run, each with the state it closed
\* over.  The signal is a discrete event: the listener effects of the resulting
\* render run within this step.
EndSignal(signal, onSlot) ==
    /\ IF onSlot /\ signal = "pointerup"
       THEN FinalizeSlotSelection(TRUE)
       ELSE IF selectionListeners /\ signal \in selectionSignals
       THEN FinalizeSlotSelection(signal \in commitSignals)
       ELSE UNCHANGED <<selectionRange, dragSelection, isDraggingSelection,
                        dragSelectionRef, showEventForm, eventDraft,
                        eventFormError, eventStatusMessage, formVars>>
    /\ IF eventDragListeners # Null /\ signal \in eventDragSignals
       THEN FinalizeEventDrag(signal \in commitSignals, eventDragListeners)
       ELSE UNCHANGED <<eventDragState, pending>>
    /\ selectionListeners' = isDraggingSelection'
    /\ eventDragListeners' = eventDragState'
    /\ UNCHANGED <<layoutVars, tripVars, envVars, eventSaving, events, store>>

\* title.trim()
trimTitle(title) == IF title = "   " THEN "" ELSE title

\* The title input's onChange.
EditTitle(title) ==
    /\ showEventForm
    /\ ~eventSaving
    /\ eventDraft.title # title
    /\ eventDraft' = [eventDraft EXCEPT !.title = title]
    /\ UNCHANGED <<layoutVars, tripVars, envVars, formVars, selectionVars,
                   showEventForm,
                   eventFormError, eventSaving, dragVars, storeVars,
                   eventStatusMessage>>

\* The Cancel button of the composer: cancelEventCreation().
CancelButton ==
    /\ showEventForm
    /\ ~eventSaving
    /\ CancelEventCreation
    /\ selectionListeners' = FALSE
    /\ eventDragListeners' = eventDragState
    /\ UNCHANGED <<layoutVars, tripVars, envVars, eventSaving, eventDragState,
                   storeVars, eventStatusMessage>>

\* A validation without the two checks against the trip's dates.
submitErrorNoRange ==
    LET trimmedTitle == trimTitle(eventDraft.title)
        normalizedStartDate == normalizeDateInput(eventDraft.startDate)
        normalizedEndDate == normalizeDateInput(eventDraft.endDate)
        isoStart == combineDateWithTime(normalizedStartDate, eventDraft.startTime)
        isoEnd == combineDateWithTime(normalizedEndDate, eventDraft.endTime)
    IN  IF trimmedTitle = "" THEN Message("Event title is required.")
        ELSE IF normalizedStartDate = NoDate \/ normalizedEndDate = NoDate
        THEN Message("Please provide both start and end dates.")
        ELSE IF isoStart = Null \/ isoEnd = Null
        THEN Message("Provide valid start and end times.")
        ELSE IF ~dateTimeLess(isoStart, isoEnd)
        THEN Message("End time should come after the start time.")
        ELSE Null

\* The message handleEventSubmit's validation ends with, or null when it passes.
submitError ==
    LET trimmedTitle == trimTitle(eventDraft.title)
        normalizedStartDate == normalizeDateInput(eventDraft.startDate)
        normalizedEndDate == normalizeDateInput(eventDraft.endDate)
        isoStart == combineDateWithTime(normalizedStartDate, eventDraft.startTime)
        isoEnd == combineDateWithTime(normalizedEndDate, eventDraft.endTime)
    IN  IF trimmedTitle = "" THEN Message("Event title is required.")
        ELSE IF normalizedStartDate = NoDate \/ normalizedEndDate = NoDate
        THEN Message("Please provide both start and end dates.")
        ELSE IF isoStart = Null \/ isoEnd = Null
        THEN Message("Provide valid start and end times.")
        ELSE IF ~dateTimeLess(isoStart, isoEnd)
        THEN Message("End time should come after the start time.")
        ELSE IF ~isFalsy(draftStartDate)
                /\ dateStringLess(normalizedStartDate, draftStartDate)
        THEN Message("Event should fall within the trip date range.")
        ELSE IF ~isFalsy(draftEndDate)
                /\ dateStringLess(draftEndDate, normalizedEndDate)
        THEN Message("Event should fall within the trip date range.")
        ELSE Null

\* The addDoc call of handleEventSubmit.
CreateRequest ==
    [kind |-> "addDoc", title |-> trimTitle(eventDraft.title),
     startDateTime |-> combineDateWithTime(normalizeDateInput(eventDraft.startDate),
                                           eventDraft.startTime),
     endDateTime |-> combineDateWithTime(normalizeDateInput(eventDraft.endDate),
                                         eventDraft.endTime)]

\* handleEventSubmit up to its await: validation, then the create request.
HandleEventSubmit ==
    /\ showEventForm
    /\ ~eventSaving
    /\ IF submitError # Null
       THEN /\ eventFormError' = submitError
            /\ eventFormError' # eventFormError
            /\ UNCHANGED <<eventSaving, eventStatusMessage, pending>>
       ELSE /\ Len(pending) < MaxPending
            /\ Cardinality(store) < MaxStored
            /\ eventSaving' = TRUE
            /\ eventFormError' = Null
            /\ eventStatusMessage' = Null
            /\ pending' = Append(pending, CreateRequest)
    /\ selectionListeners' = isDraggingSelection
    /\ eventDragListeners' = eventDragState
    /\ UNCHANGED <<layoutVars, tripVars, envVars, formVars, selectionRange,
                   dragSelection,
                   isDraggingSelection, dragSelectionRef, showEventForm,
                   eventDraft, eventDragState, events, store>>

\* A continuation of updateDoc whose .catch swallows the error.
updateStatusSilentFailure(accepted) ==
    IF accepted THEN Message("Event updated") ELSE eventStatusMessage

\* The status the .then / .catch of finalizeEventDrag sets; "Request failed"
\* stands for deriveReadableError(error).
updateStatus(accepted) ==
    IF accepted THEN Message("Event updated") ELSE Message("Request failed")

\* A failure path of handleEventSubmit that closes the composer and reports the
\* error as a status message.
createFailedDiscarding ==
    /\ eventStatusMessage' = Message("Request failed")
    /\ CancelEventCreation
    /\ eventSaving' = FALSE

\* The catch and finally blocks of handleEventSubmit; "Request failed" stands for
\* deriveReadableError(submissionError).
createFailed ==
    /\ eventFormError' = Message("Request failed")
    /\ eventSaving' = FALSE
    /\ UNCHANGED <<eventStatusMessage, selectionRange, dragSelection,
                   isDraggingSelection, dragSelectionRef, showEventForm,
                   eventDraft, formVars>>

\* The id the store gives a new document.
newDocumentId == 1 + Cardinality(store)

\* The store settles the request pending[i], and the promise's continuation
\* runs: the .then / .catch of finalizeEventDrag, or the rest of
\* handleEventSubmit after its await.
RequestSettles(i, accepted) ==
    LET request == pending[i]
    IN  /\ pending' = RemoveAt(pending, i)
        /\ IF request.kind = "updateDoc"
           THEN /\ IF accepted
                   THEN store' = {IF doc.id = request.eventId
                                  THEN [doc EXCEPT
                                          !.startDateTime = request.startDateTime,
                                          !.endDateTime = request.endDateTime]
                                  ELSE doc : doc \in store}
                   ELSE UNCHANGED store
                /\ eventStatusMessage' = updateStatus(accepted)
                /\ UNCHANGED <<selectionRange, dragSelection, isDraggingSelection,
                               dragSelectionRef, composerVars, formVars>>
           ELSE IF accepted
           THEN /\ store' = store \cup
                       {[id |-> newDocumentId, title |-> request.title,
                         startDateTime |-> request.startDateTime,
                         endDateTime |-> request.endDateTime]}
                /\ eventStatusMessage' = Message("Event created")
                /\ CancelEventCreation
                /\ eventSaving' = FALSE
           ELSE /\ createFailed
                /\ UNCHANGED store
        /\ UNCHANGED <<layoutVars, tripVars, envVars, selectionListeners,
                       dragVars, events>>

\* The events listener receives a snapshot of the stored documents.
EventsSnapshot ==
    /\ events # snapshotOf(store)
    /\ events' = snapshotOf(store)
    /\ UNCHANGED <<layoutVars, tripVars, envVars, formVars, selectionVars,
                   composerVars,
                   dragVars, store, pending, eventStatusMessage>>

(***************************************************************************)
(* Bounds and inputs of the gesture check: the two gestures and their end  *)
(* signals, with the update requests they issue still in flight.           *)
(***************************************************************************)
\* The calendar slots the pointer visits, as (day, hour).
Slots == {<<Day2, 10>>, <<Day2, 11>>}

\* Pointer heights during an event drag: 11:00 and 12:00.
Offsets == {528, 576}

Lunch == StoredEvent(1, "Lunch", Day2, 11, 0, Day2, 12, 30)
Walk == StoredEvent(1, "Walk", Day2, 15, 0, Day2, 16, 0)

InitGesture ==
    /\ FormIdle
    /\ segments = <<>>
    /\ laidOut = <<>>
    /\ lenientDateParser = FALSE
    /\ skippedMidnight = NoDate
    /\ draftStartDate = Day1
    /\ draftEndDate = Day3
    /\ calendarDays = buildCalendarDays(orNull(draftStartDate), orNull(draftEndDate))
    /\ store = {Lunch}
    /\ events = snapshotOf(store)
    /\ selectionRange = Null
    /\ dragSelection = Null
    /\ isDraggingSelection = FALSE
    /\ dragSelectionRef = Null
    /\ showEventForm = FALSE
    /\ eventDraft = EmptyDraft
    /\ eventFormError = Null
    /\ eventSaving = FALSE
    /\ eventStatusMessage = Null
    /\ eventDragState = Null
    /\ selectionListeners = FALSE
    /\ eventDragListeners = Null
    /\ pending = <<>>

SlotPointerDown == \E slot \in Slots : BeginSlotSelection(slot[1], slot[2])

SlotPointerEnter == \E slot \in Slots : ExtendSlotSelection(slot[1], slot[2])

EventPointerDown ==
    \E i \in 1..Len(calendarDays) :
        \E k \in 1..Len(layoutSegments(calendarDays[i])) :
            \E mode \in DragModes, offsetY \in Offsets :
                /\ insideBlock(layoutSegments(calendarDays[i])[k],
                               calendarDays[i].iso, offsetY)
                /\ StartEventDrag(layoutSegments(calendarDays[i])[k],
                                  calendarDays[i].iso, mode, offsetY)

WindowPointerMove == \E offsetY \in Offsets : UpdateEventDragPreview(offsetY)

WindowEndSignal ==
    \E signal \in EndSignals, onSlot \in BOOLEAN : EndSignal(signal, onSlot)

NextGesture ==
    \/ SlotPointerDown
    \/ SlotPointerEnter
    \/ EventPointerDown
    \/ WindowPointerMove
    \/ RunListenerEffects
    \/ WindowEndSignal

SpecGesture == InitGesture /\ [][NextGesture]_vars

\* C6: at most one gesture is active: in no reachable state are a selection drag
\* (isDraggingSelection or dragSelectionRef set) and an event drag (eventDragState
\* non-null) both in progress.
C6_OneGestureAtATime ==
    ~ (/\ isDraggingSelection \/ dragSelectionRef # Null
       /\ eventDragState # Null)

\* C7: whenever an end signal (pointerup, mouseup, touchend, pointercancel or
\* touchcancel) is delivered while a drag is active, the controller leaves the
\* dragging state: an active event drag ends with eventDragState null, an active
\* selection drag with isDraggingSelection false and dragSelectionRef and
\* dragSelection cleared, whatever the preview and whether it commits.
C7_EndSignalLeavesDragging ==
    [][\A signal \in EndSignals, onSlot \in BOOLEAN :
          EndSignal(signal, onSlot) =>
              /\ eventDragState # Null => eventDragState' = Null
              /\ (isDraggingSelection \/ dragSelectionRef # Null) =>
                    /\ ~isDraggingSelection'
                    /\ dragSelectionRef' = Null
                    /\ dragSelection' = Null]_vars

\* Both gestures have ended: the selection was committed into the composer and a
\* changed event drag was committed into an update request.
C7_Witness ==
    /\ eventDragState = Null
    /\ eventDragListeners = Null
    /\ ~isDraggingSelection
    /\ dragSelectionRef = Null
    /\ showEventForm
    /\ selectionRange # Null
    /\ Len(pending) = 1

\* C8: when an event drag ends with a commit signal, an update request for the
\* dragged event, with start and end on the drag's own day, is issued if and only
\* if the preview bounds differ from the original bounds; when they are equal, or
\* on a cancel signal, no request is sent.
C8_UpdateIffPreviewChanged ==
    [][\A signal \in EndSignals, onSlot \in BOOLEAN :
          (EndSignal(signal, onSlot) /\ eventDragState # Null) =>
              IF /\ signal \in {"pointerup", "mouseup", "touchend"}
                 /\ ~ (/\ eventDragState.previewStart = eventDragState.originalStart
                       /\ eventDragState.previewEnd = eventDragState.originalEnd)
              THEN /\ Len(pending') = Len(pending) + 1
                   /\ SubSeq(pending', 1, Len(pending)) = pending
                   /\ pending'[Len(pending')].kind = "updateDoc"
                   /\ pending'[Len(pending')].eventId = eventDragState.eventId
                   /\ pending'[Len(pending')].startDateTime.date = eventDragState.date
                   /\ pending'[Len(pending')].endDateTime.date = eventDragState.date
              ELSE pending' = pending]_vars

\* C25: one event-drag gesture issues at most one update request, however
\* many end signals follow the release, and the request carries the bounds of
\* the last pointer update processed before the release.
C25_OneRequestWithLastBounds ==
    [][\A signal \in EndSignals, onSlot \in BOOLEAN :
          EndSignal(signal, onSlot) =>
              /\ Len(pending') <= Len(pending) + 1
              /\ Len(pending') > Len(pending) =>
                    /\ eventDragState # Null
                    /\ pending'[Len(pending')] = UpdateRequest(eventDragState)
              /\ eventDragState = Null => pending' = pending]_vars

\* C21: a selection gesture opens the composer if and only if it ends with a
\* commit signal: on commit selectionRange becomes normalizeSelection of the
\* anchor and the last cursor and the composer is shown; on pointercancel or
\* touchcancel the composer stays closed and selectionRange stays null; an end
\* signal that finds no gesture changes neither.
C21_ComposerOpensOnCommitOnly ==
    [][\A signal \in EndSignals, onSlot \in BOOLEAN :
          EndSignal(signal, onSlot) =>
              IF /\ dragSelectionRef # Null
                 /\ selectionListeners \/ (onSlot /\ signal = "pointerup")
              THEN IF signal \in {"pointerup", "mouseup", "touchend"}
                   THEN /\ selectionRange' =
                              normalizeSelection(dragSelectionRef.anchorDate,
                                                 dragSelectionRef.anchorMinutes,
                                                 dragSelectionRef.currentDate,
                                                 dragSelectionRef.currentMinutes)
                        /\ showEventForm'
                   ELSE /\ selectionRange = Null
                        /\ selectionRange' = Null
                        /\ ~showEventForm'
              ELSE /\ selectionRange' = selectionRange
                   /\ showEventForm' = showEventForm]_vars

\* A gesture pressed on the 10:00 slot and extended over the 11:00 slot was
\* committed: the composer is open on 10:00-12:00 and the gesture is over.
C21_Witness ==
    /\ showEventForm
    /\ selectionRange # Null
    /\ selectionRange.startMinutes = 600
    /\ selectionRange.endMinutes = 720
    /\ dragSelectionRef = Null
    /\ ~selectionListeners
    /\ eventDragState = Null

(***************************************************************************)
(* Bounds and inputs of the composer check: slot selection, the composer,  *)
(* the create request and the snapshot that brings the new event back.     *)
(***************************************************************************)
Titles == {"   ", "Museum"}

\* The stored events a session starts from: one overlapping the 10:00-12:00
\* window of day 2, or one in the afternoon.
InitialStores == {{Lunch}, {Walk}}

InitCompose ==
    /\ FormIdle
    /\ segments = <<>>
    /\ laidOut = <<>>
    /\ lenientDateParser = FALSE
    /\ skippedMidnight = NoDate
    /\ draftStartDate = Day1
    /\ draftEndDate = Day3
    /\ calendarDays = buildCalendarDays(orNull(draftStartDate), orNull(draftEndDate))
    /\ store \in InitialStores
    /\ events = snapshotOf(store)
    /\ selectionRange = Null
    /\ dragSelection = Null
    /\ isDraggingSelection = FALSE
    /\ dragSelectionRef = Null
    /\ showEventForm = FALSE
    /\ eventDraft = EmptyDraft
    /\ eventFormError = Null
    /\ eventSaving = FALSE
    /\ eventStatusMessage = Null
    /\ eventDragState = Null
    /\ selectionListeners = FALSE
    /\ eventDragListeners = Null
    /\ pending = <<>>

TitleInput == \E title \in Titles : EditTitle(title)

StoreResponse ==
    \E i \in 1..Len(pending), accepted \in BOOLEAN : RequestSettles(i, accepted)

NextCompose ==
    \/ SlotPointerDown
    \/ SlotPointerEnter
    \/ WindowEndSignal
    \/ RunListenerEffects
    \/ TitleInput
    \/ CancelButton
    \/ HandleEventSubmit
    \/ StoreResponse
    \/ EventsSnapshot

SpecCompose == InitCompose /\ [][NextCompose]_vars

\* The gesture of C9 at its release: begun on the 10:00 slot of day 2, the
\* pointer last entered the slot of day 2 that holds 11:30.
C9_Gesture ==
    dragSelectionRef = [anchorDate |-> Day2, anchorMinutes |-> 600,
                        currentDate |-> Day2, currentMinutes |-> 720]

\* The create request and the event of the scenario, ending at h:m on day 2.
C9_Request(h, m) ==
    [kind |-> "addDoc", title |-> "Museum",
     startDateTime |-> DateTimeString(Day2, 10, 0),
     endDateTime |-> DateTimeString(Day2, h, m)]

C9_IsMuseum(entry, h, m) ==
    /\ entry.title = "Museum"
    /\ entry.startDateTime = DateTimeString(Day2, 10, 0)
    /\ entry.endDateTime = DateTimeString(Day2, h, m)

\* The segments of `entry` among the laid-out segments of calendarDays[i].
C9_SegmentsOf(entry, i) ==
    {k \in 1..Len(layoutSegments(calendarDays[i])) :
        layoutSegments(calendarDays[i])[k].event = entry}

\* Every Museum event of the list has no segment on days 1 and 3 and one on day
\* 2, whose columnCount is 1 when no segment of another event overlaps it.
C9_Projection(h, m) ==
    \A j \in 1..Len(events) :
        C9_IsMuseum(events[j], h, m) =>
            /\ C9_SegmentsOf(events[j], 1) = {}
            /\ C9_SegmentsOf(events[j], 3) = {}
            /\ Cardinality(C9_SegmentsOf(events[j], 2)) = 1
            /\ \A k \in C9_SegmentsOf(events[j], 2) :
                  LET day == layoutSegments(calendarDays[2])
                  IN  (\A o \in 1..Len(day) : o # k => ~overlaps(day[k], day[o]))
                          => day[k].columnCount = 1

\* The steps of the scenario, the created event ending at h:m: the release opens
\* the composer on 10:00 - h:m of day 2; submitting it with title "Museum" sends
\* exactly one create request with these date-times; and the store accepting it
\* adds exactly one document with them.
C9_Steps(h, m) ==
    /\ (C9_Gesture /\ showEventForm' /\ dragSelectionRef' = Null) =>
          /\ eventDraft'.startDate = Day2
          /\ eventDraft'.startTime = TimeString(10, 0)
          /\ eventDraft'.endDate = Day2
          /\ eventDraft'.endTime = TimeString(h, m)
    /\ (/\ showEventForm /\ ~eventSaving /\ eventSaving'
        /\ eventDraft.title = "Museum"
        /\ selectionRange = [startDate |-> Day2, startMinutes |-> 600,
                             endDate |-> Day2, endMinutes |-> 720]) =>
          pending' = Append(pending, C9_Request(h, m))
    /\ (\E i \in 1..Len(pending) :
            /\ pending[i] = C9_Request(h, m)
            /\ RequestSettles(i, TRUE)) =>
          \E doc \in store' :
              /\ doc \notin store
              /\ store' = store \cup {doc}
              /\ C9_IsMuseum(doc, h, m)

\* C9 (as amended): trip 2024-06-01 to 2024-06-03; a selection drag from day 2
\* 10:00 to day 2 11:30 followed by submitting the composer with title "Museum"
\* creates exactly one event, with startDateTime 2024-06-02T10:00 and
\* endDateTime 2024-06-02T12:00 (the selection covers the whole hour slot the
\* pointer is in), and the event projects to exactly one segment, on day 2
\* only, with columnCount 1 when no other event overlaps it.
C9_MuseumSnapsToHour == [][C9_Steps(12, 0)]_vars /\ []C9_Projection(12, 0)

\* The Museum event 10:00-12:00 of day 2 has come back in a snapshot next to an
\* event that does not overlap it.
C9_Witness ==
    /\ Len(events) = 2
    /\ \E j \in 1..Len(events) : C9_IsMuseum(events[j], 12, 0)
    /\ \E j \in 1..Len(events) : events[j].title = "Walk"
    /\ pending = <<>>

\* C9 (as stated): the same scenario with endDateTime 2024-06-02T11:30.
C9_MuseumEndsAtHalfPast == [][C9_Steps(11, 30)]_vars /\ []C9_Projection(11, 30)

(***************************************************************************)
(* Bounds and inputs of the projection check: snapshots of stored events   *)
(* projected on calendars of one to three days.                            *)
(***************************************************************************)
MaxProjected == 2

\* Stored events: within a day, across one and two midnights, inverted, empty,
\* ending on the midnight after day 3, starting before day 1, a whole day, and
\* inverted across days.
ProjectedEvents ==
    {StoredEvent(1, "Breakfast", Day1, 9, 0, Day1, 10, 30),
     StoredEvent(2, "Night train", Day1, 22, 0, Day2, 2, 0),
     StoredEvent(3, "Festival", Day1, 23, 0, Day3, 1, 0),
     StoredEvent(4, "Inverted", Day2, 10, 0, Day2, 9, 0),
     StoredEvent(5, "Empty", Day2, 10, 0, Day2, 10, 0),
     StoredEvent(6, "Late show", Day3, 20, 0, DateString(2024, 6, 4), 0, 0),
     StoredEvent(7, "Arrival", DateString(2024, 5, 31), 23, 0, Day1, 1, 0),
     StoredEvent(8, "Day trip", Day2, 0, 0, Day3, 0, 0),
     StoredEvent(9, "Backwards", Day2, 14, 0, Day1, 10, 0)}

InitProject ==
    /\ segments = <<>>
    /\ laidOut = <<>>
    /\ lenientDateParser = FALSE
    /\ skippedMidnight = NoDate
    /\ draftStartDate = TripStart
    /\ draftEndDate \in TripEnds
    /\ calendarDays = buildCalendarDays(orNull(draftStartDate), orNull(draftEndDate))
    /\ ControllerIdle

\* The events listener receives a snapshot of the documents other sessions have
\* stored meanwhile.
RemoteSnapshot ==
    \E docs \in SUBSET ProjectedEvents :
        /\ Cardinality(docs) <= MaxProjected
        /\ docs # store
        /\ store' = docs
        /\ events' = snapshotOf(docs)
        /\ UNCHANGED <<layoutVars, tripVars, envVars, formVars, selectionVars,
                       composerVars,
                       dragVars, pending, eventStatusMessage>>

NextProject == RemoteSnapshot

SpecProject == InitProject /\ [][NextProject]_vars

\* The absolute minute of a parseable date-time string whose day is listed.
absoluteOfDateTime(value) == absoluteOf(value.date, value.h * 60 + value.m)

\* The indices of the segments of `entry` among the day's segments.
segmentsOfEvent(entry, day) ==
    {k \in 1..Len(daySegments(day)) : daySegments(day)[k].event = entry}

\* C11: for every day and event the projector emits no segment when an endpoint
\* of the event lies on a day outside the day list or when the event's span cut
\* to the day's window is empty or inverted; otherwise exactly one segment,
\* equal to the span cut to [dayStart, dayStart + 1440) in the day's own
\* minutes; and the day's segments ascend by segmentStartMinutes.
C11_SegmentIsClippedSpan ==
    \A i \in 1..Len(calendarDays) :
        LET day == calendarDays[i]
            dayStart == (i - 1) * TOTAL_DAY_MINUTES
        IN  /\ \A j \in 1..Len(events) :
                  LET entry == events[j]
                      mapped == /\ dayIndexMapHas(entry.startDateTime.date)
                                /\ dayIndexMapHas(entry.endDateTime.date)
                      lo == Max(absoluteOfDateTime(entry.startDateTime), dayStart)
                      hi == Min(absoluteOfDateTime(entry.endDateTime),
                                dayStart + TOTAL_DAY_MINUTES)
                  IN  IF ~mapped THEN segmentsOfEvent(entry, day) = {}
                      ELSE IF hi <= lo THEN segmentsOfEvent(entry, day) = {}
                      ELSE /\ Cardinality(segmentsOfEvent(entry, day)) = 1
                           /\ \A k \in segmentsOfEvent(entry, day) :
                                 /\ daySegments(day)[k].segmentStartMinutes
                                       = lo - dayStart
                                 /\ daySegments(day)[k].segmentEndMinutes
                                       = hi - dayStart
            /\ \A k \in 1..(Len(daySegments(day)) - 1) :
                  daySegments(day)[k].segmentStartMinutes
                      <= daySegments(day)[k + 1].segmentStartMinutes

\* On a three-day calendar the festival shows on all three days, cut at both
\* midnights, while the event that ends after the last day shows nowhere.
C11_Witness ==
    /\ Len(calendarDays) = 3
    /\ Len(events) = 2
    /\ events[1].id = 3
    /\ events[2].id = 6
    /\ Len(daySegments(calendarDays[1])) = 1
    /\ daySegments(calendarDays[1])[1].segmentStartMinutes = 1380
    /\ daySegments(calendarDays[1])[1].segmentEndMinutes = 1440
    /\ Len(daySegments(calendarDays[2])) = 1
    /\ daySegments(calendarDays[2])[1].segmentEndMinutes = 1440
    /\ Len(daySegments(calendarDays[3])) = 1
    /\ daySegments(calendarDays[3])[1].segmentEndMinutes = 60

\* The days on which `entry` has a segment, and its segment on such a day.
daysOfEvent(entry) ==
    {i \in 1..Len(calendarDays) : segmentsOfEvent(entry, calendarDays[i]) # {}}

segmentOn(entry, i) ==
    daySegments(calendarDays[i])[
        CHOOSE k \in segmentsOfEvent(entry, calendarDays[i]) : TRUE]

\* The minutes of `entry` shown on the first n days.
RECURSIVE minutesShown(_, _)
minutesShown(entry, n) ==
    IF n = 0 THEN 0
    ELSE minutesShown(entry, n - 1)
           + IF n \in daysOfEvent(entry)
             THEN segmentOn(entry, n).segmentEndMinutes
                    - segmentOn(entry, n).segmentStartMinutes
             ELSE 0

\* C26: for an event whose start and end fall on days of the calendar and whose
\* start is before its end, the segments over all days partition its span:
\* one per day on consecutive days, disjoint and ascending in absolute time,
\* their lengths adding up to the event's duration, exactly one of them the
\* start segment and exactly one the end segment; an event whose end is not
\* after its start has no segment on any day.
C26_SegmentsPartitionTheSpan ==
    \A j \in 1..Len(events) :
        LET entry == events[j]
            days == daysOfEvent(entry)
            startAbs == absoluteOfDateTime(entry.startDateTime)
            endAbs == absoluteOfDateTime(entry.endDateTime)
            absStart(i) == (i - 1) * TOTAL_DAY_MINUTES
                              + segmentOn(entry, i).segmentStartMinutes
            absEnd(i) == (i - 1) * TOTAL_DAY_MINUTES
                            + segmentOn(entry, i).segmentEndMinutes
        IN  (/\ dayIndexMapHas(entry.startDateTime.date)
             /\ dayIndexMapHas(entry.endDateTime.date)) =>
                IF startAbs < endAbs
                THEN /\ days # {}
                     /\ \A i \in days :
                           /\ Cardinality(segmentsOfEvent(entry, calendarDays[i])) = 1
                           /\ absStart(i) < absEnd(i)
                     /\ \A a, b \in days :
                           /\ \A i \in a..b : i \in days
                           /\ a < b => absEnd(a) <= absStart(b)
                     /\ minutesShown(entry, Len(calendarDays)) = endAbs - startAbs
                     /\ Cardinality({i \in days :
                                        segmentOn(entry, i).isStartSegment}) = 1
                     /\ Cardinality({i \in days :
                                        segmentOn(entry, i).isEndSegment}) = 1
                ELSE days = {}

\* The event from day 1 23:00 to day 3 01:00 is shown on three days, next to the
\* event that fills day 2 and ends on its last midnight.
C26_Witness ==
    /\ Len(calendarDays) = 3
    /\ Len(events) = 2
    /\ events[1].id = 3
    /\ events[2].id = 8
    /\ daysOfEvent(events[1]) = {1, 2, 3}
    /\ daysOfEvent(events[2]) = {2}
    /\ segmentOn(events[2], 2).isEndSegment

(***************************************************************************)
(* Bounds and inputs of the unmount check: an event drag while snapshots   *)
(* of the itinerary change the trip's dates and with them the day columns. *)
(***************************************************************************)
\* The itinerary listener receives a snapshot with the trip's dates: it replaces
\* the draft (and so the rendered day list) and clears the selection and the
\* composer, whose position the effect on showEventForm then clears.  The
\* eventDraft keeps its fields (the handler only adds a `date` field nothing
\* reads); eventDragState is not touched.
ItinerarySnapshot(startDate, endDate) ==
    /\ draftStartDate' = startDate
    /\ draftEndDate' = endDate
    /\ calendarDays' = buildCalendarDays(orNull(startDate), orNull(endDate))
    /\ selectionRange' = Null
    /\ dragSelection' = Null
    /\ dragSelectionRef' = Null
    /\ isDraggingSelection' = FALSE
    /\ showEventForm' = FALSE
    /\ eventFormError' = Null
    /\ eventStatusMessage' = Null
    /\ ResetFormPosition
    /\ UNCHANGED <<layoutVars, envVars, selectionListeners, eventDraft,
                   eventSaving, dragVars, storeVars>>

\* The trip as stored: days 1 to 3, or cut back to day 1 alone.
TripSnapshots == {<<Day1, Day3>>, <<Day1, Day1>>}

ItineraryChanges ==
    \E trip \in TripSnapshots :
        /\ <<draftStartDate, draftEndDate>> # trip
        /\ ItinerarySnapshot(trip[1], trip[2])

NextUnmount ==
    \/ EventPointerDown
    \/ WindowPointerMove
    \/ RunListenerEffects
    \/ WindowEndSignal
    \/ ItineraryChanges

SpecUnmount == InitGesture /\ [][NextUnmount]_vars

\* C12: once the day column an event drag targets is no longer registered, the
\* drag counts as cancelled: no step issues an update request for that gesture,
\* a later release signal included.
C12_MissingColumnCancelsDrag ==
    [][(eventDragState # Null /\ eventDragState.date \notin dayBodyRefs)
          => pending' = pending]_vars

(***************************************************************************)
(* The commit check: event drags over the whole day body, with their end   *)
(* signals and the update requests they put in flight.                     *)
(***************************************************************************)
NextCommit ==
    \/ PointerDownOnEvent
    \/ PointerMoveInDrag
    \/ RunListenerEffects
    \/ WindowEndSignal

SpecCommit == InitDrag /\ [][NextCommit]_vars

\* A date-time string of the fixed pattern with hour 00..23 and minute 00..59.
isWellFormedDateTime(value) ==
    /\ value.kind = "iso"
    /\ value.h \in 0..23
    /\ value.m \in 0..59

\* C14: every date-time pair the controller sends to the store, in a create or
\* in an update request, is a well-formed YYYY-MM-DDTHH:MM pair with
\* startDateTime strictly earlier than endDateTime.
C14_RequestsAreWellFormed ==
    \A i \in 1..Len(pending) :
        /\ isWellFormedDateTime(pending[i].startDateTime)
        /\ isWellFormedDateTime(pending[i].endDateTime)
        /\ dateTimeLess(pending[i].startDateTime, pending[i].endDateTime)

\* The minute of the day a written date-time denotes.
minuteOfDay(value) == value.h * 60 + value.m

\* C24: the start and the end an event-drag update request writes are the
\* preview bounds shown at release, on the drag's day: start minute =
\* previewStart and end minute = previewEnd, so that the written duration is
\* the previewed one and an edge the gesture did not move keeps its pre-drag
\* value.
C24_RequestWritesPreview ==
    [][Len(pending') > Len(pending) =>
          LET request == pending'[Len(pending')]
          IN  /\ request.startDateTime.date = eventDragState.date
              /\ request.endDateTime.date = eventDragState.date
              /\ minuteOfDay(request.startDateTime) = eventDragState.previewStart
              /\ minuteOfDay(request.endDateTime) = eventDragState.previewEnd]_vars

(***************************************************************************)
(* The settle check: event drags, their update requests and the store's    *)
(* answers, between two snapshots of the event list.  A request the store  *)
(* has received is answered: the promise of updateDoc settles.             *)
(***************************************************************************)
NextSettle ==
    \/ EventPointerDown
    \/ WindowPointerMove
    \/ RunListenerEffects
    \/ WindowEndSignal
    \/ StoreResponse

SpecSettle == InitGesture /\ [][NextSettle]_vars /\ WF_vars(StoreResponse)

\* C15: an update request issued at the end of an event drag is eventually
\* followed by a visible status, "Event updated" when the store accepts it and
\* the error text when it fails; and the controller does not wait for it: the
\* step that issues the request leaves eventDragState null.
C15_UpdateOutcomeShown ==
    /\ [][\A i \in 1..Len(pending), accepted \in BOOLEAN :
            (pending[i].kind = "updateDoc" /\ RequestSettles(i, accepted)) =>
                eventStatusMessage' = IF accepted THEN Message("Event updated")
                                      ELSE Message("Request failed")]_vars
    /\ [][Len(pending') > Len(pending) => eventDragState' = Null]_vars
    /\ (Len(pending) > 0) ~>
          (eventStatusMessage \in {Message("Event updated"),
                                   Message("Request failed")})

\* A new drag is under way while an update request is in flight, and the
\* outcome of an earlier request is on display.
C15_Witness ==
    /\ Len(pending) = 1
    /\ pending[1].kind = "updateDoc"
    /\ eventDragState # Null
    /\ eventStatusMessage = Message("Request failed")

(***************************************************************************)
(* The wide layout check: days of up to MaxWideSegments segments, enough   *)
(* for two columns to be free at once while a third is still held.         *)
(***************************************************************************)
MaxWideSegments == 5
MaxWideMinute == 3

WideInput ==
    {s \in [segmentStartMinutes : 0..MaxWideMinute,
            segmentEndMinutes : 0..MaxWideMinute] :
        s.segmentStartMinutes < s.segmentEndMinutes}

LayoutWideDay ==
    /\ Len(segments) < MaxWideSegments
    /\ \E s \in WideInput :
        /\ Len(segments) > 0 =>
              segments[Len(segments)].segmentStartMinutes <= s.segmentStartMinutes
        /\ segments' = Append(segments, s)
        /\ laidOut' = layoutSegmentsWithColumns(segments')
    /\ UNCHANGED <<tripVars, envVars, ctlVars>>

NextLayoutWide == LayoutWideDay

SpecLayoutWide == InitLayout /\ [][NextLayoutWide]_vars

\* The segments placed before segment i that are still active at its start.
activeBefore(i) ==
    {j \in 1..(i - 1) :
        segments[j].segmentEndMinutes > segments[i].segmentStartMinutes}

\* The first segment of the group segment i is placed in: the last segment at
\* or before i that found no segment active.
groupStartOf(i) ==
    CHOOSE k \in 1..i : /\ activeBefore(k) = {}
                        /\ \A n \in (k + 1)..i : activeBefore(n) # {}

\* The columns handed out in the group of segment i before it was placed.
usedColumnsBefore(i) ==
    {laidOut[j].columnIndex : j \in groupStartOf(i)..(i - 1)}

\* Those of them no active segment holds when segment i is placed.
freeColumnsBefore(i) ==
    usedColumnsBefore(i) \ {laidOut[j].columnIndex : j \in activeBefore(i)}

lowestOf(columns) == CHOOSE c \in columns : \A d \in columns : c <= d

\* C17 (amended): a segment placed while others of its group are active gets a
\* column that is free at that moment, not necessarily the lowest one, and
\* gets the next unused index only when no column is free.
C17_TakesAFreeColumn ==
    /\ Len(laidOut) = Len(segments)
    /\ \A i \in 1..Len(laidOut) :
          activeBefore(i) # {} =>
              IF freeColumnsBefore(i) # {}
              THEN laidOut[i].columnIndex \in freeColumnsBefore(i)
              ELSE laidOut[i].columnIndex = Cardinality(usedColumnsBefore(i))

\* C17: a segment placed while others of its group are active gets the lowest
\* column index that is free at that moment, and the next unused index only
\* when no column is free.
C17_TakesLowestFreeColumn ==
    /\ Len(laidOut) = Len(segments)
    /\ \A i \in 1..Len(laidOut) :
          activeBefore(i) # {} =>
              IF freeColumnsBefore(i) # {}
              THEN laidOut[i].columnIndex = lowestOf(freeColumnsBefore(i))
              ELSE laidOut[i].columnIndex = Cardinality(usedColumnsBefore(i))

\* The fifth segment is placed while one segment is active and two columns are
\* free, and takes the higher of the two.
C17_Witness ==
    /\ Len(laidOut) = 5
    /\ activeBefore(5) # {}
    /\ Cardinality(freeColumnsBefore(5)) = 2
    /\ laidOut[5].columnIndex # lowestOf(freeColumnsBefore(5))

(***************************************************************************)
(* The failure check: a slot selection with its composer and an event      *)
(* drag, the create and update requests they issue and a store that        *)
(* rejects them, between two snapshots of the event list.                  *)
(***************************************************************************)
\* The user of this check makes one gesture at a time: no slot selection is
\* begun during an event drag and no event is grabbed during a slot selection or
\* over an open composer.
SlotPointerDownWhenIdle ==
    /\ eventDragState = Null
    /\ SlotPointerDown

EventPointerDownWhenIdle ==
    /\ ~isDraggingSelection
    /\ ~showEventForm
    /\ EventPointerDown

\* The store of this check rejects every request it receives.
StoreRejects == \E i \in 1..Len(pending) : RequestSettles(i, FALSE)

NextFailure ==
    \/ SlotPointerDownWhenIdle
    \/ EventPointerDownWhenIdle
    \/ WindowPointerMove
    \/ RunListenerEffects
    \/ WindowEndSignal
    \/ TitleInput
    \/ HandleEventSubmit
    \/ StoreRejects

SpecFailure == InitGesture /\ [][NextFailure]_vars

\* Request i is rejected by the store.
updateFails(i) == pending[i].kind = "updateDoc" /\ RequestSettles(i, FALSE)
createFails(i) == pending[i].kind = "addDoc" /\ RequestSettles(i, FALSE)

\* What both statements of C16 say of a failed update: the error text becomes
\* the status message, the drag that issued the request left no preview (the
\* drag state was cleared by the step that issued it and the failure does not
\* touch it), and the event list and the store are as they were.
C16_FailedUpdate ==
    /\ [][\A i \in 1..Len(pending) : updateFails(i) =>
            /\ eventStatusMessage' = Message("Request failed")
            /\ eventDragState' = eventDragState
            /\ events' = events
            /\ store' = store]_vars
    /\ [][(Len(pending') > Len(pending)
              /\ pending'[Len(pending')].kind = "updateDoc")
            => eventDragState' = Null]_vars

\* C16 (amended): a failed update is reported as the status message, leaves no
\* preview of its drag and leaves the event list alone; a failed create is
\* reported in the composer (eventFormError) and discards nothing: the
\* selection, the composer and its draft stay as they were, so that the form,
\* if still open, can be submitted again; the event list is left alone.
C16_FailedCreateKeepsComposer ==
    /\ C16_FailedUpdate
    /\ [][\A i \in 1..Len(pending) : createFails(i) =>
            /\ eventFormError' = Message("Request failed")
            /\ ~eventSaving'
            /\ showEventForm' = showEventForm
            /\ selectionRange' = selectionRange
            /\ eventDraft' = eventDraft
            /\ eventStatusMessage' = eventStatusMessage
            /\ events' = events
            /\ store' = store]_vars

\* C16: a failed update is reported, leaves no preview of its drag and leaves
\* the event list alone; a failed create is reported, and the pending selection
\* and the composer are discarded, the event list being left alone.
C16_FailedCreateDiscardsComposer ==
    /\ C16_FailedUpdate
    /\ [][\A i \in 1..Len(pending) : createFails(i) =>
            /\ eventFormError' = Message("Request failed")
                  \/ eventStatusMessage' = Message("Request failed")
            /\ selectionRange' = Null
            /\ ~showEventForm'
            /\ events' = events
            /\ store' = store]_vars

\* A create request has failed: the composer shows the error over the
\* selection it was opened for, and no request is in flight.
C16_Witness ==
    /\ eventFormError = Message("Request failed")
    /\ showEventForm
    /\ selectionRange # Null
    /\ ~eventSaving
    /\ pending = <<>>

(***************************************************************************)
(* The selection check: a selection drag pressed on any slot of the        *)
(* calendar and taken over any slots, on calendars of one to               *)
(* MaxCalendarDays days.                                                   *)
(***************************************************************************)
\* The hours of the slots the pointer visits (HOUR_MARKERS is 0..23).
SelectHours == {0, 9, 10, 23}

\* A day that is in no day list.
OutsideDay == DateString(2024, 7, 15)

\* pointerdown on a rendered slot.
SlotDownAnywhere ==
    \E i \in 1..Len(calendarDays), hour \in SelectHours :
        BeginSlotSelection(calendarDays[i].iso, hour)

\* pointerenter on a rendered slot, or extendSlotSelection called for a day
\* that is not in the day list.
SlotEnterAnywhere ==
    \E date \in dayBodyRefs \cup {OutsideDay}, hour \in SelectHours :
        ExtendSlotSelection(date, hour)

NextSelect ==
    \/ SlotDownAnywhere
    \/ SlotEnterAnywhere

SpecSelect == InitNormalize /\ [][NextSelect]_vars

\* The anchor and the cursor of the gesture in absolute minutes.
anchorAbsOfGesture ==
    absoluteOf(dragSelectionRef.anchorDate, dragSelectionRef.anchorMinutes)
cursorAbsOfGesture ==
    absoluteOf(dragSelectionRef.currentDate, dragSelectionRef.currentMinutes)

\* C22: in every state of a selection drag the live dragSelection is ascending
\* in absolute minutes, both of its endpoints are multiples of 60, and one of
\* them is the anchor, the start of the pressed slot; and an extend over a day
\* that is not in the day list is not carried out.
C22_LiveSelectionSnapsToHours ==
    (isDraggingSelection /\ dragSelectionRef # Null) =>
        /\ dragSelection # Null
        /\ LET start == absoluteOf(dragSelection.startDate,
                                   dragSelection.startMinutes)
               end == absoluteOf(dragSelection.endDate, dragSelection.endMinutes)
           IN  /\ start < end
               /\ start % 60 = 0
               /\ end % 60 = 0
               /\ anchorAbsOfGesture \in {start, end}
               /\ dragSelectionRef.anchorMinutes % 60 = 0
        /\ \A hour \in SelectHours : ~ ENABLED ExtendSlotSelection(OutsideDay, hour)

\* Pressed on 10:00 of the second day and taken back to 23:00 of the first:
\* the selection runs from day 1 23:00 to day 2 10:00.
C22_Witness ==
    /\ isDraggingSelection
    /\ Len(calendarDays) >= 2
    /\ dragSelectionRef.anchorDate = calendarDays[2].iso
    /\ dragSelectionRef.anchorMinutes = 600
    /\ dragSelection.startDate = calendarDays[1].iso
    /\ dragSelection.startMinutes = 1380
    /\ dragSelection.endDate = calendarDays[2].iso
    /\ dragSelection.endMinutes = 600

\* The start of the slot under the pointer: the cursor is the end of that slot
\* when the pointer is at or after the anchor and its start when it is before.
hoveredSlotAbs ==
    IF cursorAbsOfGesture > anchorAbsOfGesture
    THEN cursorAbsOfGesture - 60 ELSE cursorAbsOfGesture

\* C28: during a selection drag the live selection covers the hour slot the
\* pointer went down on and the hour slot now under the pointer, forward and
\* backward.
C28_SelectionCoversBothSlots ==
    (isDraggingSelection /\ dragSelectionRef # Null /\ dragSelection # Null) =>
        LET start == absoluteOf(dragSelection.startDate, dragSelection.startMinutes)
            end == absoluteOf(dragSelection.endDate, dragSelection.endMinutes)
        IN  /\ start <= anchorAbsOfGesture
            /\ anchorAbsOfGesture + 60 <= end
            /\ start <= hoveredSlotAbs
            /\ hoveredSlotAbs + 60 <= end

(***************************************************************************)
(* Composer position: updateEventFormPosition.  Lengths are in tenths of a *)
(* pixel: rectangle offsets may be fractional, offsetHeight, scrollHeight  *)
(* and their like are whole pixels.                                        *)
(***************************************************************************)
CALENDAR_FORM_GUTTER_PX == 16

Px(pixels) == pixels * 10

Abs(n) == IF n < 0 THEN -n ELSE n

\* dayBodyRect.top - gridRect.top + (minutes / 60) * CALENDAR_SLOT_HEIGHT_PX
selectionOffset(metrics, minutes) ==
    metrics.dayTop + (minutes * Px(CALENDAR_SLOT_HEIGHT_PX)) \div 60

\* selectionCenter - formHeight / 2 (all the selection minutes are even)
centredTop(range, metrics) ==
    (selectionOffset(metrics, range.startMinutes)
        + selectionOffset(metrics, range.endMinutes)) \div 2
      - Px(metrics.formHeight) \div 2

\* Math.max(scrollHeight - formHeight - GUTTER, GUTTER)
maxTopOf(metrics) ==
    Max(Px(metrics.scrollHeight) - Px(metrics.formHeight)
            - Px(CALENDAR_FORM_GUTTER_PX),
        Px(CALENDAR_FORM_GUTTER_PX))

\* A clamp that leaves out the gutter at the top.
clampTopNoGutter(top, maxTop) == Min(top, maxTop)

\* Math.max(GUTTER, Math.min(top, maxTop))
clampTop(top, maxTop) == Max(Px(CALENDAR_FORM_GUTTER_PX), Min(top, maxTop))

\* left and placement
horizontalOf(metrics) ==
    LET gutter == Px(CALENDAR_FORM_GUTTER_PX)
        offsetLeft == metrics.dayLeft
        preferredLeft == offsetLeft + Px(metrics.dayWidth) + gutter
        maxLeft == Max(Px(metrics.scrollWidth) - Px(metrics.formWidth) - gutter,
                       gutter)
    IN  IF preferredLeft > maxLeft /\ offsetLeft > Px(metrics.formWidth) + gutter
        THEN [left |-> Max(gutter, offsetLeft - Px(metrics.formWidth) - gutter),
              placement |-> "left"]
        ELSE [left |-> Max(gutter, Min(preferredLeft, maxLeft)),
              placement |-> "right"]

\* The updater passed to setEventFormPosition: a position within half a pixel
\* of the previous one is dropped.
keepStablePosition(previous, top, left) ==
    IF /\ previous # Null
       /\ Abs(previous.top - top) < 5
       /\ Abs(previous.left - left) < 5
    THEN previous
    ELSE [top |-> top, left |-> left]

\* updateEventFormPosition(range, {width, height}) with the grid mounted, reading
\* `metrics` from the DOM.  The measured values are finite, so the
\* Number.isFinite branch is not taken.
UpdateEventFormPosition(range, metrics) ==
    /\ gridMetrics' = metrics
    /\ IF range.startDate \notin dayBodyRefs
       THEN /\ eventFormPosition' = Null
            /\ UNCHANGED eventFormPlacement
       ELSE /\ eventFormPlacement' = horizontalOf(metrics).placement
            /\ eventFormPosition' =
                  keepStablePosition(eventFormPosition,
                      clampTop(centredTop(range, metrics), maxTopOf(metrics)),
                      horizontalOf(metrics).left)

(***************************************************************************)
(* The position check: the composer is opened from the keyboard on a slot  *)
(* and positioned, and positioned again when the window is resized.        *)
(***************************************************************************)
\* What the DOM may report: a grid 1200 or 1216 px high, a composer 320 or
\* 1180 px high, the day body 48 or 48.3 px below the grid's top.
GridMetrics ==
    [scrollHeight : {1200, 1216}, formHeight : {320, 1180},
     dayTop : {480, 483},
     scrollWidth : {900}, formWidth : {320}, dayWidth : {200},
     dayLeft : {640, 4640}]

\* Enter or Space on the slot (date, hour).
SlotKeyDownOn(date, hour) ==
    /\ OpenEventComposer(
          normalizeSelection(date, clampMinutes(hour * 60),
                             date, clampMinutes((hour + 1) * 60)))
    /\ selectionListeners' = FALSE
    /\ eventDragListeners' = eventDragState
    /\ UNCHANGED <<layoutVars, tripVars, envVars, eventSaving, eventDragState,
                   storeVars>>

SlotKeyDown ==
    \E i \in 1..Len(calendarDays), hour \in SelectHours :
        SlotKeyDownOn(calendarDays[i].iso, hour)

\* update() of the positioning effect: run after the render that shows the
\* composer and on every window resize.
PositionComposer ==
    /\ showEventForm
    /\ selectionRange # Null
    /\ \E metrics \in GridMetrics :
          UpdateEventFormPosition(selectionRange, metrics)
    /\ UNCHANGED <<layoutVars, tripVars, envVars, selectionVars, composerVars,
                   dragVars, storeVars, eventStatusMessage>>

NextPosition ==
    \/ SlotKeyDown
    \/ PositionComposer

SpecPosition == InitNormalize /\ [][NextPosition]_vars

\* The top updateEventFormPosition computes from the last measurement.
computedTop == clampTop(centredTop(selectionRange, gridMetrics),
                        maxTopOf(gridMetrics))

\* C23 (amended): the composer's top is never above the gutter; it is within
\* half a pixel of the centred top clamped to [16, max(scrollHeight -
\* formHeight - 16, 16)]; and when the composer fits (formHeight <=
\* scrollHeight - 32) its bottom is less than half a pixel below
\* scrollHeight - 16.
C23_PositionWithinHalfPixel ==
    (showEventForm /\ eventFormPosition # Null) =>
        /\ eventFormPosition.top >= Px(CALENDAR_FORM_GUTTER_PX)
        /\ Abs(eventFormPosition.top - computedTop) < 5
        /\ (gridMetrics.formHeight <= gridMetrics.scrollHeight
                                        - 2 * CALENDAR_FORM_GUTTER_PX) =>
              eventFormPosition.top + Px(gridMetrics.formHeight)
                  < Px(gridMetrics.scrollHeight) - Px(CALENDAR_FORM_GUTTER_PX) + 5

\* C23: for every selection and every measured composer size top >= 16 and
\* top + formHeight <= scrollHeight - 16, and top is the selection midpoint
\* minus half the form height whenever that value lies in this range.
C23_PositionInsideGrid ==
    (showEventForm /\ eventFormPosition # Null) =>
        LET top == eventFormPosition.top
            centred == centredTop(selectionRange, gridMetrics)
            lowest == Px(gridMetrics.scrollHeight) - Px(CALENDAR_FORM_GUTTER_PX)
                          - Px(gridMetrics.formHeight)
        IN  /\ top >= Px(CALENDAR_FORM_GUTTER_PX)
            /\ top <= lowest
            /\ (Px(CALENDAR_FORM_GUTTER_PX) <= centred /\ centred <= lowest)
                  => top = centred

\* The composer for 10:00-11:00 sits centred on the selection: the top is
\* neither of the two bounds.
C23_Witness ==
    /\ showEventForm
    /\ eventFormPosition # Null
    /\ selectionRange.startMinutes = 600
    /\ gridMetrics.formHeight = 320
    /\ eventFormPosition.top = centredTop(selectionRange, gridMetrics)
    /\ eventFormPosition.top > Px(CALENDAR_FORM_GUTTER_PX)
    /\ eventFormPosition.top < maxTopOf(gridMetrics)


(***************************************************************************)
(* The pre-fill check: selections committed by a gesture or by the         *)
(* keyboard on the calendar of a trip read from the store, in either kind  *)
(* of engine.                                                              *)
(***************************************************************************)
\* The trip's dates as stored: the start is 2024-04-29; the end is the pattern-
\* matching string of one of the next three days, "2024-04-31" among them.
PrefillStart == DateString(2024, 4, 29)
PrefillEnds == {DateString(2024, 4, 29), DateString(2024, 4, 30),
                DateString(2024, 4, 31)}

InitPrefill ==
    /\ segments = <<>>
    /\ laidOut = <<>>
    /\ lenientDateParser \in BOOLEAN
    /\ skippedMidnight = NoDate
    /\ draftStartDate = PrefillStart
    /\ draftEndDate \in PrefillEnds
    /\ calendarDays = buildCalendarDays(orNull(draftStartDate), orNull(draftEndDate))
    /\ ControllerIdle

\* The user types the title.
EnterTitle == EditTitle("Museum")

NextPrefill ==
    \/ SlotDownAnywhere
    \/ SlotEnterAnywhere
    \/ WindowEndSignal
    \/ SlotKeyDown
    \/ EnterTitle

SpecPrefill == InitPrefill /\ [][NextPrefill]_vars

\* The composer shows the draft openEventComposer filled for the committed
\* selection, with a title entered.
prefilledWithTitle ==
    /\ showEventForm
    /\ selectionRange # Null
    /\ trimTitle(eventDraft.title) # ""
    /\ eventDraft.startDate = selectionRange.startDate
    /\ eventDraft.endDate = selectionRange.endDate

\* C27: the draft openEventComposer fills for a committed selection passes
\* every check of handleEventSubmit once a title is entered: both times are
\* valid, the start is before the end, both dates are within the trip range.
C27_PrefilledDraftPasses ==
    prefilledWithTitle => submitError = Null

\* The part of C27 that does not depend on the trip's dates: valid times and
\* a start before the end.
C27_PrefilledTimesPass ==
    prefilledWithTitle =>
        submitError \in {Null, Message("Event should fall within the trip date range.")}

\* The same drafts on a trip whose end date names a day of the calendar.
C27_PassesOnRealDates ==
    (prefilledWithTitle /\ draftEndDate.d <= 30) => submitError = Null


(***************************************************************************)
(* Composer sessions: what the answer to a create request does to the      *)
(* gesture or the composer the user has moved on to while it was in        *)
(* flight.                                                                 *)
(***************************************************************************)
\* Request i is a create request and the store accepts it.
createSucceeds(i) == pending[i].kind = "addDoc" /\ RequestSettles(i, TRUE)

\* The composer on screen is not the one that issued `request`: the inputs of
\* the issuing composer are disabled while it saves, so a draft with other
\* bounds was filled by a later openEventComposer.
isLaterComposer(request) ==
    /\ showEventForm
    /\ selectionRange # Null
    /\ \/ CreateRequest.startDateTime # request.startDateTime
       \/ CreateRequest.endDateTime # request.endDateTime

\* C29: the success of a create request leaves alone what the user started while
\* it was in flight: a selection drag goes on, and a composer opened for a later
\* selection stays open with its selection and its draft.
C29_SuccessKeepsLaterSession ==
    [][\A i \in 1..Len(pending) : createSucceeds(i) =>
          /\ isDraggingSelection =>
                /\ isDraggingSelection'
                /\ dragSelectionRef' = dragSelectionRef
                /\ dragSelection' = dragSelection
          /\ isLaterComposer(pending[i]) =>
                /\ showEventForm'
                /\ selectionRange' = selectionRange
                /\ eventDraft' = eventDraft]_vars

\* The last sentence of C29: while a create request is in flight the Cancel
\* button, the one caller of the unforced cancelEventCreation, changes nothing.
C29_UnforcedCancelIsNoOp ==
    eventSaving => ~ ENABLED CancelButton


(***************************************************************************)
(* The submit check: a composer opened from the keyboard, every field of   *)
(* its draft edited, submitted, and the store's answer.                    *)
(***************************************************************************)
\* a < b on the strings a date field may hold: "" is below every string, and
\* a string of digits is below one of letters.
stringRank(value) ==
    IF value.kind = "ymd" THEN 1 ELSE IF value.text = "" THEN 0 ELSE 2
stringLess(a, b) ==
    \/ stringRank(a) < stringRank(b)
    \/ a.kind = "ymd" /\ b.kind = "ymd" /\ dateStringLess(a, b)

\* What the user may put into the fields: a day of the trip, the day before it
\* or after it, nothing, or text; a time, a time past 23:59, or nothing.
StartDateInputs == {Day2, DateString(2024, 5, 31), TextString("")}
EndDateInputs == {Day2, DateString(2024, 6, 4), TextString("tomorrow")}
StartTimeInputs == {[kind |-> "hm", h |-> 10, m |-> 0],
                    [kind |-> "hm", h |-> 25, m |-> 0]}
EndTimeInputs == {[kind |-> "hm", h |-> 11, m |-> 0],
                  [kind |-> "hm", h |-> 9, m |-> 0], TextString("")}

\* An onChange of the composer that replaces the draft.
EditDraft(draft) ==
    /\ showEventForm
    /\ ~eventSaving
    /\ eventDraft # draft
    /\ eventDraft' = draft
    /\ UNCHANGED <<layoutVars, tripVars, envVars, formVars, selectionVars,
                   showEventForm, eventFormError, eventSaving, dragVars,
                   storeVars, eventStatusMessage>>

\* The onChange handlers of the start date, start time, end date and end time.
StartDateInput ==
    \E value \in StartDateInputs :
        EditDraft([eventDraft EXCEPT
                     !.startDate = value,
                     !.endDate = IF ~isFalsy(eventDraft.endDate)
                                     /\ stringLess(eventDraft.endDate, value)
                                  THEN value ELSE eventDraft.endDate])

StartTimeInput ==
    \E value \in StartTimeInputs : EditDraft([eventDraft EXCEPT !.startTime = value])

EndDateInput ==
    \E value \in EndDateInputs : EditDraft([eventDraft EXCEPT !.endDate = value])

EndTimeInput ==
    \E value \in EndTimeInputs : EditDraft([eventDraft EXCEPT !.endTime = value])

\* Enter or Space on one of the slots.
SlotsKeyDown == \E slot \in Slots : SlotKeyDownOn(slot[1], slot[2])

NextSubmit ==
    \/ SlotsKeyDown
    \/ TitleInput
    \/ StartDateInput
    \/ StartTimeInput
    \/ EndDateInput
    \/ EndTimeInput
    \/ HandleEventSubmit
    \/ StoreResponse

SpecSubmit == InitCompose /\ [][NextSubmit]_vars

\* A time of day: HH:MM with the hour up to 23 and the minute up to 59.
isTimeOfDay(time) == time.kind = "hm" /\ time.h \in 0..23 /\ time.m \in 0..59

\* The draft has a title, two dates, two times of day, a start before its end
\* and both dates within the trip.
isAcceptableDraft ==
    /\ trimTitle(eventDraft.title) # ""
    /\ eventDraft.startDate.kind = "ymd"
    /\ eventDraft.endDate.kind = "ymd"
    /\ isTimeOfDay(eventDraft.startTime)
    /\ isTimeOfDay(eventDraft.endTime)
    /\ \/ dateStringLess(eventDraft.startDate, eventDraft.endDate)
       \/ /\ eventDraft.startDate = eventDraft.endDate
          /\ eventDraft.startTime.h * 60 + eventDraft.startTime.m
                < eventDraft.endTime.h * 60 + eventDraft.endTime.m
    /\ ~dateStringLess(eventDraft.startDate, draftStartDate)
    /\ ~dateStringLess(draftEndDate, eventDraft.endDate)

createInFlight == \E i \in 1..Len(pending) : pending[i].kind = "addDoc"

\* C30: a submit of a draft that lacks a title, a date or a time of day, whose
\* start is not before its end or whose dates leave the trip issues no request,
\* sets eventFormError and leaves the composer, the draft and the selection as
\* they are; and eventSaving is true only while a create request is in flight:
\* it is false after a rejected submit and after the store's answer, be it an
\* acceptance or a failure.
C30_RejectedSubmitChangesNothing ==
    /\ [][(HandleEventSubmit /\ ~isAcceptableDraft) =>
            /\ pending' = pending
            /\ eventFormError' # Null
            /\ showEventForm' = showEventForm
            /\ eventDraft' = eventDraft
            /\ selectionRange' = selectionRange
            /\ ~eventSaving']_vars
    /\ [][\A i \in 1..Len(pending) :
            \A accepted \in BOOLEAN :
                (pending[i].kind = "addDoc" /\ RequestSettles(i, accepted)) =>
                    ~eventSaving']_vars
    /\ [](eventSaving <=> createInFlight)

\* A draft dated before the trip has been rejected: the composer is open on
\* its selection, the error is shown and nothing is in flight.
C30_Witness ==
    /\ showEventForm
    /\ selectionRange # Null
    /\ eventDraft.title = "Museum"
    /\ eventDraft.startDate = DateString(2024, 5, 31)
    /\ eventFormError = Message("Event should fall within the trip date range.")
    /\ ~eventSaving
    /\ pending = <<>>

====
